---- MODULE Spec2Model ----
(***************************************************************************)
(* A model of the rule-based matching engine of UCR HousingConnect         *)
(* (src/app/matching.py, class ListingMatcher): text normalisation,        *)
(* preference extraction by ordered regular expressions, listing scoring,  *)
(* ranking and response composition.                                       *)
(*                                                                         *)
(* Strings are TLA+ strings read character by character with SubSeq.       *)
(* Python's None is the empty tuple <<>> and a set value v is <<v>>.       *)
(* Bathroom counts are kept in halves (1.5 is 3). Prices are kept in       *)
(* hundredths of a currency unit (900.0 is 90000); one hundredth stands    *)
(* for one unit in the last place of a float, so that a float product      *)
(* that is rounded away from the decimal it approximates (3 * 1.1 is       *)
(* 3.3000000000000003) differs from that decimal (330 + 1).                *)
(***************************************************************************)
EXTENDS Integers, Sequences, FiniteSets, TLC

VARIABLES
    nltk_available,  \* module flag set by the import block (matching.py:18-25)
    tokenizer_ok,    \* whether word_tokenize's data can be loaded (environment)
    stop_words,      \* self.stop_words: "nltk" or "basic" (matching.py:53-62)
    query,           \* the query argument of the call
    listings,        \* the listings argument of the call
    top_n,           \* the top_n argument of the call
    op,              \* the operation that ran last ("none" before any call)
    ret,             \* what the last operation returned or raised
    given,           \* the matches argument of the last generate_response
    first,           \* the arguments and result of the first find_matches call
    resources,       \* what of the NLP package the environment has to load
    logged           \* the warnings logged about the tokenizer (matching.py:25, 76)

vars == <<nltk_available, tokenizer_ok, stop_words, query, listings, top_n, op, ret, given, first,
          resources, logged>>

\* ------------------------------------------------------------------ values

None == <<>>
Some(v) == <<v>>
IsNone(x) == x = <<>>
Val(x) == x[1]

Min(a, b) == IF a <= b THEN a ELSE b
Max(a, b) == IF a >= b THEN a ELSE b
Abs(a) == IF a < 0 THEN -a ELSE a

\* ------------------------------------------------------------------ characters

Ch(s, i) == SubSeq(s, i, i)

Digits == {"0", "1", "2", "3", "4", "5", "6", "7", "8", "9"}
LowerLetters == {"a", "b", "c", "d", "e", "f", "g", "h", "i", "j", "k", "l", "m",
                 "n", "o", "p", "q", "r", "s", "t", "u", "v", "w", "x", "y", "z"}
UpperLetters == {"A", "B", "C", "D", "E", "F", "G", "H", "I", "J", "K", "L", "M",
                 "N", "O", "P", "Q", "R", "S", "T", "U", "V", "W", "X", "Y", "Z"}

IsDigit(c) == c \in Digits
IsSpace(c) == c = " "
IsAlphaCh(c) == c \in LowerLetters \cup UpperLetters
\* \w of the re module
IsWordCh(c) == IsAlphaCh(c) \/ IsDigit(c) \/ c = "_"

LowerCh(c) ==
    CASE c = "A" -> "a" [] c = "B" -> "b" [] c = "C" -> "c" [] c = "D" -> "d"
      [] c = "E" -> "e" [] c = "F" -> "f" [] c = "G" -> "g" [] c = "H" -> "h"
      [] c = "I" -> "i" [] c = "J" -> "j" [] c = "K" -> "k" [] c = "L" -> "l"
      [] c = "M" -> "m" [] c = "N" -> "n" [] c = "O" -> "o" [] c = "P" -> "p"
      [] c = "Q" -> "q" [] c = "R" -> "r" [] c = "S" -> "s" [] c = "T" -> "t"
      [] c = "U" -> "u" [] c = "V" -> "v" [] c = "W" -> "w" [] c = "X" -> "x"
      [] c = "Y" -> "y" [] c = "Z" -> "z" [] OTHER -> c

RECURSIVE LowerFrom(_, _)
\* s[i-1:].lower(): the text up to the next upper-case letter is copied as it is
LowerFrom(s, i) ==
    LET ups == {j \in i..Len(s) : Ch(s, j) \in UpperLetters}
    IN  IF ups = {} THEN SubSeq(s, i, Len(s))
        ELSE LET u == CHOOSE j \in ups : \A k \in ups : j <= k
             IN  SubSeq(s, i, u - 1) \o LowerCh(Ch(s, u)) \o LowerFrom(s, u + 1)

\* str.lower()
Lower(s) == LowerFrom(s, 1)

DigitVal(c) ==
    CASE c = "0" -> 0 [] c = "1" -> 1 [] c = "2" -> 2 [] c = "3" -> 3 [] c = "4" -> 4
      [] c = "5" -> 5 [] c = "6" -> 6 [] c = "7" -> 7 [] c = "8" -> 8 [] c = "9" -> 9

RECURSIVE ToInt(_)
\* int(s) of a string of decimal digits
ToInt(s) == IF s = "" THEN 0 ELSE 10 * ToInt(SubSeq(s, 1, Len(s) - 1)) + DigitVal(Ch(s, Len(s)))

\* ------------------------------------------------------------------ regular expressions

\* s has lit at position i
StartsAt(s, i, lit) == i + Len(lit) - 1 <= Len(s) /\ SubSeq(s, i, i + Len(lit) - 1) = lit

\* whether position p of s holds a word character (positions outside s do not)
WordAt(s, p) == p >= 1 /\ p <= Len(s) /\ IsWordCh(Ch(s, p))

\* \b between positions p-1 and p
Boundary(s, p) == WordAt(s, p - 1) # WordAt(s, p)

\* the positions j >= i such that s[i..j] are all digits: what \d+ can take from i
DigitRunEnds(s, i) == {j \in i..Len(s) : \A p \in i..j : IsDigit(Ch(s, p))}

\* the positions k >= j such that s[j+1..k] are all whitespace: what \s* can take after j
SpaceRunEnds(s, j) == {k \in j..Len(s) : \A p \in (j + 1)..k : IsSpace(Ch(s, p))}

\* the positions of s where a word starts: a word character that follows none
WordStarts(s) == {i \in 1..Len(s) : WordAt(s, i) /\ ~WordAt(s, i - 1)}

\* re.search(r"\b" + keyword + r"\b", s) for a keyword that starts and ends with a
\* word character; starts is WordStarts(s): only there does the first \b hold
SearchWord(s, starts, keyword) ==
    \E i \in starts : StartsAt(s, i, keyword) /\ Boundary(s, i + Len(keyword))

\* keyword in s
Contains(s, keyword) == \E i \in 1..(Len(s) + 1) : StartsAt(s, i, keyword)

SetMin(S) == CHOOSE x \in S : \A y \in S : x <= y
SetMax(S) == CHOOSE x \in S : \A y \in S : x >= y

\* ------------------------------------------------------------------ numbers in patterns

\* what \d+(?:\.\d+)? can take from i: the end positions of a decimal number
DecimalEnds(s, i) ==
    DigitRunEnds(s, i) \cup
    UNION {IF j + 2 <= Len(s) /\ Ch(s, j + 1) = "." THEN DigitRunEnds(s, j + 2) ELSE {} :
           j \in DigitRunEnds(s, i)}

\* what \d+(?:,\d+)? can take from i: the end positions of a number with one separator
CommaNumberEnds(s, i) ==
    DigitRunEnds(s, i) \cup
    UNION {IF j + 2 <= Len(s) /\ Ch(s, j + 1) = "," THEN DigitRunEnds(s, j + 2) ELSE {} :
           j \in DigitRunEnds(s, i)}

RECURSIVE RemoveCommas(_)
\* price_str.replace(',', '')
RemoveCommas(s) ==
    IF s = "" THEN ""
    ELSE (IF Ch(s, 1) = "," THEN "" ELSE Ch(s, 1)) \o RemoveCommas(SubSeq(s, 2, Len(s)))

\* the position of the decimal point of s, 0 when there is none
PointAt(s) == IF \E i \in 1..Len(s) : Ch(s, i) = "." THEN CHOOSE i \in 1..Len(s) : Ch(s, i) = "." ELSE 0

\* float(s), in halves, of a decimal whose fraction is absent, "0" or "5"
ToHalves(s) ==
    IF PointAt(s) = 0 THEN 2 * ToInt(s)
    ELSE 2 * ToInt(SubSeq(s, 1, PointAt(s) - 1))
         + (IF SubSeq(s, PointAt(s) + 1, Len(s)) = "5" THEN 1 ELSE 0)

\* the end positions of a number of the given shape that starts at i
NumberEnds(s, i, shape) ==
    CASE shape = "digits" -> DigitRunEnds(s, i)
      [] shape = "decimal" -> DecimalEnds(s, i)
      [] shape = "comma" -> CommaNumberEnds(s, i)

\* the positions where a digit stands: where a number can start
DigitPositions(s) == {i \in 1..Len(s) : IsDigit(Ch(s, i))}

\* In the operators below D is DigitPositions(s): every pattern with a number can
\* match only where a digit stands.

\* the matches <<i, j>> of (<number>)\s*(?:w1|w2|...) , followed by \b when bounded:
\* the number is s[i..j]
NumberWordMatches(s, D, shape, words, bounded) ==
    UNION {{<<i, j>> : j \in {e \in NumberEnds(s, i, shape) :
                \E k \in SpaceRunEnds(s, e) : \E w \in words :
                    StartsAt(s, k + 1, w) /\ (bounded => Boundary(s, k + 1 + Len(w)))}} :
           i \in D}

\* the matches <<i, j, m, n>> of (<number>)\s*-\s*(<number>)\s*(?:w1|w2|...) :
\* the numbers are s[i..j] and s[m..n]
NumberRangeWordMatches(s, D, shape, words) ==
    UNION {UNION {UNION {UNION {
        {<<i, j, k2 + 1, n>> : n \in {e \in NumberEnds(s, k2 + 1, shape) :
            \E k3 \in SpaceRunEnds(s, e) : \E w \in words : StartsAt(s, k3 + 1, w)}} :
        k2 \in SpaceRunEnds(s, k + 1)} :
        k \in {x \in SpaceRunEnds(s, j) : StartsAt(s, x + 1, "-")}} :
        j \in NumberEnds(s, i, shape)} :
        i \in D}

\* matches[0] of re.findall: the match that starts leftmost, its quantifiers greedy
FirstMatch(M) ==
    LET i == SetMin({m[1] : m \in M})
        A == {m \in M : m[1] = i}
        j == SetMax({m[2] : m \in A})
    IN  CHOOSE m \in {a \in A : a[2] = j} : \A b \in {a \in A : a[2] = j} : Len(b) < 4 \/ b[4] <= m[4]

\* ------------------------------------------------------------------ extract_preferences: bedrooms

BedroomWords == {"bedroom", "bed room", "bed", "br"}

\* studio\s+apartment|studio\s+apt|studio : the positions where a match starts
StudioMatches(s) ==
    {<<i, i + 5>> : i \in {x \in 1..Len(s) :
        \/ /\ StartsAt(s, x, "studio")
           /\ \E k \in SpaceRunEnds(s, x + 5) :
                 k > x + 5 /\ (StartsAt(s, k + 1, "apartment") \/ StartsAt(s, k + 1, "apt"))
        \/ StartsAt(s, x, "studio")}}

bedroom_patterns == <<"exact", "range", "studio">>

\* re.findall(pattern, query) for the pattern of this match_type:
\*   exact   (\d+)\s*(?:bedroom|bed room|bed|br)\b
\*   range   (\d+)\s*-\s*(\d+)\s*(?:bedroom|bed room|bed|br)
\*   studio  studio\s+apartment|studio\s+apt|studio
BedroomMatches(s, D, match_type) ==
    CASE match_type = "exact" -> NumberWordMatches(s, D, "digits", BedroomWords, TRUE)
      [] match_type = "range" -> NumberRangeWordMatches(s, D, "digits", BedroomWords)
      [] match_type = "studio" -> StudioMatches(s)

\* the assignments of the branch of match_type (matching.py:114-124), M its matches
BedroomAssign(p, s, match_type, M) ==
    CASE match_type = "exact" ->
            LET m == FirstMatch(M)
            IN  [p EXCEPT !.bedrooms = Some(ToInt(SubSeq(s, m[1], m[2])))]
      [] match_type = "range" ->
            LET m == FirstMatch(M)
            IN  [p EXCEPT !.min_bedrooms = Some(ToInt(SubSeq(s, m[1], m[2]))),
                          !.max_bedrooms = Some(ToInt(SubSeq(s, m[3], m[4])))]
      [] match_type = "studio" -> [p EXCEPT !.bedrooms = Some(0)]

RECURSIVE BedroomLoopNoBreak(_, _, _, _)
\* the loop with the break statements left out
BedroomLoopNoBreak(p, s, D, n) ==
    IF n > Len(bedroom_patterns) THEN p
    ELSE LET M == BedroomMatches(s, D, bedroom_patterns[n])
         IN  IF M # {}
             THEN BedroomLoopNoBreak(BedroomAssign(p, s, bedroom_patterns[n], M), s, D, n + 1)
             ELSE BedroomLoopNoBreak(p, s, D, n + 1)

RECURSIVE BedroomLoop(_, _, _, _)
\* for pattern, match_type in bedroom_patterns, from the n-th pattern on: the first
\* pattern that matches assigns and breaks
BedroomLoop(p, s, D, n) ==
    IF n > Len(bedroom_patterns) THEN p
    ELSE LET M == BedroomMatches(s, D, bedroom_patterns[n])
         IN  IF M # {} THEN BedroomAssign(p, s, bedroom_patterns[n], M)
             ELSE BedroomLoop(p, s, D, n + 1)

\* ------------------------------------------------------------------ extract_preferences: bathrooms

BathroomWords == {"bathroom", "bath room", "bath", "ba"}

bathroom_patterns == <<"exact", "range">>

\* re.findall(pattern, query) for the pattern of this match_type:
\*   exact   (\d+(?:\.\d+)?)\s*(?:bathroom|bath room|bath|ba)\b
\*   range   (\d+(?:\.\d+)?)\s*-\s*(\d+(?:\.\d+)?)\s*(?:bathroom|bath room|bath|ba)
BathroomMatches(s, D, match_type) ==
    CASE match_type = "exact" -> NumberWordMatches(s, D, "decimal", BathroomWords, TRUE)
      [] match_type = "range" -> NumberRangeWordMatches(s, D, "decimal", BathroomWords)

\* the assignments of the branch of match_type (matching.py:135-142), M its matches
BathroomAssign(p, s, match_type, M) ==
    CASE match_type = "exact" ->
            LET m == FirstMatch(M)
            IN  [p EXCEPT !.bathrooms = Some(ToHalves(SubSeq(s, m[1], m[2])))]
      [] match_type = "range" ->
            LET m == FirstMatch(M)
            IN  [p EXCEPT !.min_bathrooms = Some(ToHalves(SubSeq(s, m[1], m[2]))),
                          !.max_bathrooms = Some(ToHalves(SubSeq(s, m[3], m[4])))]

RECURSIVE BathroomLoop(_, _, _, _)
\* for pattern, match_type in bathroom_patterns, from the n-th pattern on
BathroomLoop(p, s, D, n) ==
    IF n > Len(bathroom_patterns) THEN p
    ELSE LET M == BathroomMatches(s, D, bathroom_patterns[n])
         IN  IF M # {} THEN BathroomAssign(p, s, bathroom_patterns[n], M)
             ELSE BathroomLoop(p, s, D, n + 1)

\* ------------------------------------------------------------------ extract_preferences: price

MaxPhrases == {"under", "less than", "below", "max", "maximum"}
MinPhrases == {"over", "more than", "above", "min", "minimum"}

\* the matches <<i, m, n>> of (?:p1|p2|...)\s*\$?(\d+(?:,\d+)?) : the phrase starts at i
\* and the number is s[m..n]
PhraseNumberMatches(s, D, phrases) ==
    IF D = {} THEN {}
    ELSE UNION {UNION {UNION {
        {<<i, m, n>> : n \in CommaNumberEnds(s, m)} :
        m \in {x \in {k + 1, k + 2} :
                  /\ x \in D
                  /\ (x = k + 2 => Ch(s, k + 1) = "$")}} :
        k \in UNION {SpaceRunEnds(s, i + Len(w) - 1) : w \in {v \in phrases : StartsAt(s, i, v)}}} :
        i \in 1..Len(s)}

\* the matches <<i, j, m, n>> of \$?(\d+(?:,\d+)?)\s*(?:to|-)\s*\$?(\d+(?:,\d+)?) :
\* the numbers are s[i..j] and s[m..n]
PriceRangeMatches(s, D) ==
    UNION {UNION {UNION {UNION {UNION {
        {<<i, j, m, n>> : n \in CommaNumberEnds(s, m)} :
        m \in {x \in {k2 + 1, k2 + 2} :
                  /\ x \in D
                  /\ (x = k2 + 2 => Ch(s, k2 + 1) = "$")}} :
        k2 \in UNION {SpaceRunEnds(s, k + Len(w)) : w \in {v \in {"to", "-"} : StartsAt(s, k + 1, v)}}} :
        k \in SpaceRunEnds(s, j)} :
        j \in CommaNumberEnds(s, i)} :
        i \in D}

\* the matches <<i, m, n>> of \$(\d+(?:,\d+)?) : the sign stands at i, the number is s[m..n]
DollarMatches(s, D) ==
    UNION {{<<i - 1, i, n>> : n \in CommaNumberEnds(s, i)} :
           i \in {x \in D : x > 1 /\ Ch(s, x - 1) = "$"}}

\* matches[0] of a pattern whose only group is the trailing number: leftmost, number greedy
FirstNumber(M) ==
    LET i == SetMin({m[1] : m \in M})
        A == {m \in M : m[1] = i}
    IN  CHOOSE m \in A : \A b \in A : b[3] <= m[3]

\* int(price_str.replace(',', ''))
PriceOf(s, a, b) == ToInt(RemoveCommas(SubSeq(s, a, b)))

price_patterns == <<"max", "min", "range", "exact">>

\* re.findall(pattern, query) for the pattern of this match_type
PriceMatches(s, D, match_type) ==
    CASE match_type = "max" -> PhraseNumberMatches(s, D, MaxPhrases)
      [] match_type = "min" -> PhraseNumberMatches(s, D, MinPhrases)
      [] match_type = "range" -> PriceRangeMatches(s, D)
      [] match_type = "exact" -> DollarMatches(s, D)

RECURSIVE Pow2(_)
\* 2 ** n
Pow2(n) == IF n = 0 THEN 1 ELSE 2 * Pow2(n - 1)

RECURSIVE ExponentFrom(_, _)
\* the binary exponent of kN / 10 >= 1, searched from e on: 2^e <= kN / 10 < 2^(e + 1)
ExponentFrom(kN, e) == IF Pow2(e + 1) * 10 <= kN THEN ExponentFrom(kN, e + 1) ELSE e

\* 2 ** m % 20, for m >= 2
Pow2Mod20(m) == <<16, 12, 4, 8>>[(m % 4) + 1]

\* by how many units in the last place the float product N * c, c the double nearest to
\* k / 10 (k = 9: 0.9, k = 11: 1.1), lies above the double nearest to kN / 10. The
\* double c exceeds k / 10 by 0.4 * 2^-52 (k = 11) and by 0.2 * 2^-53 (k = 9); in units
\* of 2^(e - 52) / (10 * 2^e) the decimal kN / 10 has the fraction r * 2^e, the exact
\* product the fraction X, and both are rounded to the nearest unit, ties to even
UlpsAbove(N, k) ==
    IF k * N < 10 THEN 0
    ELSE LET a == IF k = 11 THEN 4 ELSE 1
             e == ExponentFrom(k * N, 0)
             t == (k * N * Pow2Mod20(52 - e)) % 20
             r == t % 10
             par == ((t - r) \div 10) % 2
             X == r * Pow2(e) + a * N
             A == IF r >= 6 THEN 1 ELSE 0
             B == IF X < 5 * Pow2(e) THEN 0
                  ELSE IF X = 5 * Pow2(e) THEN par
                  ELSE IF X < 15 * Pow2(e) THEN 1
                  ELSE IF X = 15 * Pow2(e) THEN 2 - par
                  ELSE 2
         IN  B - A

\* exact_price * 0.9 (k = 9) and exact_price * 1.1 (k = 11), in hundredths
FloatTimes(N, k) == 10 * k * N + UlpsAbove(N, k)

\* the assignments of the price branches, were the exact branch to take the price
\* itself for both bounds
PriceAssignPoint(p, s, match_type, M) ==
    IF match_type = "max"
    THEN [p EXCEPT !.max_price = Some(100 * PriceOf(s, FirstNumber(M)[2], FirstNumber(M)[3]))]
    ELSE IF match_type = "min"
    THEN [p EXCEPT !.min_price = Some(100 * PriceOf(s, FirstNumber(M)[2], FirstNumber(M)[3]))]
    ELSE IF match_type = "range"
    THEN [p EXCEPT !.min_price = Some(100 * PriceOf(s, FirstMatch(M)[1], FirstMatch(M)[2])),
                   !.max_price = Some(100 * PriceOf(s, FirstMatch(M)[3], FirstMatch(M)[4]))]
    ELSE [p EXCEPT !.min_price = Some(100 * PriceOf(s, FirstNumber(M)[2], FirstNumber(M)[3])),
                   !.max_price = Some(100 * PriceOf(s, FirstNumber(M)[2], FirstNumber(M)[3]))]

\* the assignments of the branch of match_type (matching.py:155-176), M its matches;
\* prices in hundredths
PriceAssign(p, s, match_type, M) ==
    CASE match_type = "max" ->
            LET m == FirstNumber(M)
            IN  [p EXCEPT !.max_price = Some(100 * PriceOf(s, m[2], m[3]))]
      [] match_type = "min" ->
            LET m == FirstNumber(M)
            IN  [p EXCEPT !.min_price = Some(100 * PriceOf(s, m[2], m[3]))]
      [] match_type = "range" ->
            LET m == FirstMatch(M)
            IN  [p EXCEPT !.min_price = Some(100 * PriceOf(s, m[1], m[2])),
                          !.max_price = Some(100 * PriceOf(s, m[3], m[4]))]
      [] match_type = "exact" ->
            LET m == FirstNumber(M)
            IN  [p EXCEPT !.min_price = Some(FloatTimes(PriceOf(s, m[2], m[3]), 9)),
                          !.max_price = Some(FloatTimes(PriceOf(s, m[2], m[3]), 11))]

RECURSIVE PriceLoopNoBreak(_, _, _, _)
\* the loop with the break statements left out
PriceLoopNoBreak(p, s, D, n) ==
    IF n > Len(price_patterns) THEN p
    ELSE LET M == PriceMatches(s, D, price_patterns[n])
         IN  IF M # {}
             THEN PriceLoopNoBreak(PriceAssign(p, s, price_patterns[n], M), s, D, n + 1)
             ELSE PriceLoopNoBreak(p, s, D, n + 1)

RECURSIVE PriceLoop(_, _, _, _)
\* for pattern, match_type in price_patterns, from the n-th pattern on
PriceLoop(p, s, D, n) ==
    IF n > Len(price_patterns) THEN p
    ELSE LET M == PriceMatches(s, D, price_patterns[n])
         IN  IF M # {} THEN PriceAssign(p, s, price_patterns[n], M)
             ELSE PriceLoop(p, s, D, n + 1)

\* ------------------------------------------------------------------ extract_preferences: type, amenities, proximity

\* property_types, in the order of the dict
property_types ==
    << <<"apartment", <<"apartment", "apt", "flat", "condo", "condominium">> >>,
       <<"house", <<"house", "home", "townhouse", "town house", "bungalow", "cottage">> >>,
       <<"room", <<"room", "bedroom", "shared", "dorm">> >> >>

\* amenity_keywords, in the order of the dict
amenity_keywords ==
    << <<"parking", <<"parking", "garage", "covered parking", "parking spot", "car", "vehicle">> >>,
       <<"pet-friendly", <<"pet", "dog", "cat", "animal", "pet-friendly", "pet friendly">> >>,
       <<"laundry", <<"laundry", "washer", "dryer", "w/d", "washer/dryer", "washer and dryer",
                      "washing machine">> >>,
       <<"furnished", <<"furnished", "furniture", "equipped">> >>,
       <<"air-conditioning", <<"ac", "a/c", "air conditioning", "air-conditioning", "cooling">> >>,
       <<"heating", <<"heating", "heater", "heated", "central heat">> >>,
       <<"pool", <<"pool", "swimming pool", "swim">> >>,
       <<"gym", <<"gym", "fitness", "workout", "exercise">> >>,
       <<"balcony", <<"balcony", "patio", "terrace", "outdoor space", "deck">> >>,
       <<"security", <<"security", "gated", "doorman", "secure", "surveillance", "cameras">> >>,
       <<"utilities-included", <<"utilities included", "utilities", "bills included",
                                 "water included", "electricity included">> >>,
       <<"internet", <<"internet", "wifi", "broadband", "high-speed internet">> >> >>

ucr_keywords ==
    <<"ucr", "campus", "university", "riverside", "college", "school", "near ucr",
      "close to ucr", "walking distance">>

\* whether some keyword of the list is found in s as a whole word
AnyWord(s, starts, keywords) == \E n \in 1..Len(keywords) : SearchWord(s, starts, keywords[n])

RECURSIVE PropertyTypeLoopNoBreak(_, _, _)
\* the loop over property_types, were it not left at the first category found
PropertyTypeLoopNoBreak(s, starts, n) ==
    IF n > Len(property_types) THEN None
    ELSE IF ~IsNone(PropertyTypeLoopNoBreak(s, starts, n + 1))
         THEN PropertyTypeLoopNoBreak(s, starts, n + 1)
         ELSE IF AnyWord(s, starts, property_types[n][2]) THEN Some(property_types[n][1])
              ELSE None

RECURSIVE PropertyTypeLoop(_, _, _)
\* for prop_type, keywords in property_types.items(), from the n-th entry on
PropertyTypeLoop(s, starts, n) ==
    IF n > Len(property_types) THEN None
    ELSE IF AnyWord(s, starts, property_types[n][2]) THEN Some(property_types[n][1])
         ELSE PropertyTypeLoop(s, starts, n + 1)

RECURSIVE AmenityLoop(_, _, _)
\* for amenity, keywords in amenity_keywords.items(), from the n-th entry on
AmenityLoop(s, starts, n) ==
    IF n > Len(amenity_keywords) THEN <<>>
    ELSE (IF AnyWord(s, starts, amenity_keywords[n][2]) THEN <<amenity_keywords[n][1]>> ELSE <<>>)
         \o AmenityLoop(s, starts, n + 1)

\* any(keyword in query for keyword in ucr_keywords)
NearUcr(s) == \E n \in 1..Len(ucr_keywords) : Contains(s, ucr_keywords[n])

\* ------------------------------------------------------------------ preprocess_text

BASIC_STOP_WORDS ==
    {"i", "me", "my", "myself", "we", "our", "ours", "ourselves",
     "you", "your", "yours", "yourself", "yourselves", "he", "him",
     "his", "himself", "she", "her", "hers", "herself", "it", "its",
     "itself", "they", "them", "their", "theirs", "themselves",
     "what", "which", "who", "whom", "this", "that", "these", "those",
     "am", "is", "are", "was", "were", "be", "been", "being", "have",
     "has", "had", "having", "do", "does", "did", "doing", "a", "an",
     "the", "and", "but", "if", "or", "because", "as", "until", "while",
     "of", "at", "by", "for", "with", "about", "against", "between",
     "into", "through", "during", "before", "after", "above", "below",
     "to", "from", "up", "down", "in", "out", "on", "off", "over",
     "under", "again", "further", "then", "once", "here", "there",
     "when", "where", "why", "how", "all", "any", "both", "each",
     "few", "more", "most", "other", "some", "such", "no", "nor",
     "not", "only", "own", "same", "so", "than", "too", "very",
     "s", "t", "can", "will", "just", "don", "should", "now"}

\* the purely alphabetic entries that stopwords.words('english') has beyond the basic set
NltkStopWords ==
    BASIC_STOP_WORDS \cup
    {"d", "ll", "m", "o", "re", "ve", "y", "ain", "aren", "couldn", "didn", "doesn",
     "hadn", "hasn", "haven", "isn", "ma", "mightn", "mustn", "needn", "shan",
     "shouldn", "wasn", "weren", "won", "wouldn"}

\* the set self.stop_words refers to
StopWordSet(sw) == IF sw = "nltk" THEN NltkStopWords ELSE BASIC_STOP_WORDS

RECURSIVE Split(_)
\* text.split(): the maximal runs of non-whitespace characters
Split(s) ==
    IF s = "" THEN <<>>
    ELSE IF IsSpace(Ch(s, 1)) THEN Split(SubSeq(s, 2, Len(s)))
    ELSE LET e == SetMin({j \in 1..Len(s) : j = Len(s) \/ IsSpace(Ch(s, j + 1))})
         IN  <<SubSeq(s, 1, e)>> \o Split(SubSeq(s, e + 1, Len(s)))

RECURSIVE PunctSpaced(_, _)
\* the rewriting word_tokenize does before it splits, from position i on: a currency
\* sign, a comma not followed by a digit and the final period become tokens of their own
PunctSpaced(s, i) ==
    IF i > Len(s) THEN ""
    ELSE LET c == Ch(s, i)
             apart == \/ c = "$"
                      \/ c = "," /\ ~(i < Len(s) /\ IsDigit(Ch(s, i + 1)))
                      \/ c = "." /\ i = Len(s)
         IN  (IF apart THEN " " \o c \o " " ELSE c) \o PunctSpaced(s, i + 1)

\* word_tokenize(text)
WordTokenize(s) == Split(PunctSpaced(s, 1))

\* token.isalpha()
IsAlpha(t) == t # "" /\ \A i \in 1..Len(t) : IsAlphaCh(Ch(t, i))

\* PorterStemmer().stem(token), for the words of the queries and listings enumerated
\* here; any other word loses a plural s
Stem(t) ==
    CASE t = "parking" -> "park"
      [] t = "apartment" -> "apart"
      [] t = "apartments" -> "apart"
      [] t = "house" -> "hous"
      [] t = "furnished" -> "furnish"
      [] t = "campus" -> "campu"
      [] t = "cozy" -> "cozi"
      [] OTHER -> IF Len(t) > 2 /\ Ch(t, Len(t)) = "s" /\ Ch(t, Len(t) - 1) # "s"
                  THEN SubSeq(t, 1, Len(t) - 1) ELSE t

\* whether preprocess_text tokenizes with word_tokenize; when its data cannot be
\* loaded the call raises inside the try block and the split fallback runs
UsesWordTokenize(avail, tok_ok) == avail /\ tok_ok

RECURSIVE FilterStem(_, _)
\* the two list comprehensions: keep the alphabetic non-stop-words, stem them
FilterStem(tokens, sw) ==
    IF tokens = <<>> THEN <<>>
    ELSE (IF Head(tokens) \notin StopWordSet(sw) /\ IsAlpha(Head(tokens))
          THEN <<Stem(Head(tokens))>> ELSE <<>>) \o FilterStem(Tail(tokens), sw)

\* preprocess_text(text)
PreprocessText(text, avail, tok_ok, sw) ==
    LET t == Lower(text)
        tokens == IF UsesWordTokenize(avail, tok_ok) THEN WordTokenize(t) ELSE Split(t)
    IN  FilterStem(tokens, sw)

\* ------------------------------------------------------------------ extract_preferences

\* the preferences dict as created (matching.py:86-99)
InitialPreferences ==
    [bedrooms |-> None, min_bedrooms |-> None, max_bedrooms |-> None,
     bathrooms |-> None, min_bathrooms |-> None, max_bathrooms |-> None,
     min_price |-> None, max_price |-> None, property_type |-> None,
     amenities |-> <<>>, near_ucr |-> FALSE, keywords |-> <<>>]

\* extract_preferences(query)
ExtractPreferences(q, avail, tok_ok, sw) ==
    LET s == Lower(q)
        D == DigitPositions(s)
        p1 == BedroomLoop(InitialPreferences, s, D, 1)
        p2 == BathroomLoop(p1, s, D, 1)
        p3 == PriceLoop(p2, s, D, 1)
        starts == WordStarts(s)
    IN  [p3 EXCEPT !.property_type = PropertyTypeLoop(s, starts, 1),
                   !.amenities = AmenityLoop(s, starts, 1),
                   !.near_ucr = NearUcr(s),
                   !.keywords = PreprocessText(s, avail, tok_ok, sw)]

\* ------------------------------------------------------------------ listings

\* A listing is a dict: l.keys are the keys it has, and l[k] is the value of key k,
\* None for a key whose value is None. bathrooms are in halves, price in currency
\* units, latitude and longitude in thousandths of a degree from the reference point.

\* listing.get(k)
Get(l, k) == IF k \in l.keys THEN l[k] ELSE None

\* listing.get(k, d)
GetD(l, k, d) == IF k \in l.keys THEN l[k] ELSE Some(d)

\* the truth value of listing.get('is_multi_unit')
IsMultiUnit(l) == Get(l, "is_multi_unit") = Some(TRUE)

DigitStr(d) ==
    CASE d = 0 -> "0" [] d = 1 -> "1" [] d = 2 -> "2" [] d = 3 -> "3" [] d = 4 -> "4"
      [] d = 5 -> "5" [] d = 6 -> "6" [] d = 7 -> "7" [] d = 8 -> "8" [] d = 9 -> "9"

RECURSIVE IntStr(_)
\* str(n) of a non-negative integer
IntStr(n) == IF n < 10 THEN DigitStr(n) ELSE IntStr(n \div 10) \o DigitStr(n % 10)

\* str(x) of a float given in halves
HalvesStr(h) == IntStr(h \div 2) \o (IF h % 2 = 1 THEN ".5" ELSE ".0")

\* ------------------------------------------------------------------ calculate_listing_score

\* the outcome of one rule: the error it raised ("" when none), what it adds to the
\* score and what it appends to the explanation
Gain(d, e) == [err |-> "", d |-> d, e |-> e]
Raise(err) == [err |-> err, d |-> 0, e |-> <<>>]

\* the exact-count rule of bedrooms and of bathrooms (matching.py:234-262, 282-307):
\* want is the desired count, lo/hi/one the listing's keys, full and near the scores,
\* tol the distance that still counts as close
ExactRule(l, want, lo, hi, one, full, near, tol, eFull, eOne, eNear) ==
    IF IsMultiUnit(l)
    THEN IF IsNone(Get(l, lo)) THEN Raise("TypeError")
         ELSE IF Val(Get(l, lo)) <= want /\ IsNone(Get(l, hi)) THEN Raise("TypeError")
         ELSE IF Val(Get(l, lo)) <= want /\ want <= Val(Get(l, hi)) THEN Gain(full, <<eFull>>)
         ELSE IF IsNone(GetD(l, lo, 0)) \/ IsNone(GetD(l, hi, 0)) THEN Raise("TypeError")
         ELSE LET diff == Min(Abs(Val(GetD(l, lo, 0)) - want), Abs(Val(GetD(l, hi, 0)) - want))
              IN  IF diff <= tol THEN Gain(near, <<eNear>>) ELSE Gain(-(diff * 2), <<>>)
    ELSE IF Get(l, one) = Some(want) THEN Gain(full, <<eOne>>)
         ELSE IF IsNone(GetD(l, one, 0)) THEN Raise("TypeError")
         ELSE LET diff == Abs(Val(GetD(l, one, 0)) - want)
              IN  IF diff <= tol THEN Gain(near, <<eNear>>) ELSE Gain(-(diff * 2), <<>>)

\* the range rule, were a multi-unit listing to match only with its whole range inside
\* the desired one
RangeRuleContained(l, wantLo, wantHi, lo, hi, one, in, out, eMulti, eOne) ==
    IF IsMultiUnit(l)
    THEN IF IsNone(Get(l, lo)) THEN Raise("TypeError")
         ELSE IF Val(Get(l, lo)) >= wantLo /\ IsNone(Get(l, hi)) THEN Raise("TypeError")
         ELSE IF Val(Get(l, lo)) >= wantLo /\ Val(Get(l, hi)) <= wantHi
              THEN Gain(in, <<eMulti>>) ELSE Gain(-out, <<>>)
    ELSE IF IsNone(GetD(l, one, 0)) THEN Raise("TypeError")
         ELSE IF wantLo <= Val(GetD(l, one, 0)) /\ Val(GetD(l, one, 0)) <= wantHi
              THEN Gain(in, <<eOne>>) ELSE Gain(-out, <<>>)

\* the range rule of bedrooms and of bathrooms (matching.py:263-279, 308-321)
RangeRule(l, wantLo, wantHi, lo, hi, one, in, out, eMulti, eOne) ==
    IF IsMultiUnit(l)
    THEN IF IsNone(Get(l, lo)) THEN Raise("TypeError")
         ELSE IF Val(Get(l, lo)) <= wantHi /\ IsNone(Get(l, hi)) THEN Raise("TypeError")
         ELSE IF Val(Get(l, lo)) <= wantHi /\ Val(Get(l, hi)) >= wantLo
              THEN Gain(in, <<eMulti>>) ELSE Gain(-out, <<>>)
    ELSE IF IsNone(GetD(l, one, 0)) THEN Raise("TypeError")
         ELSE IF wantLo <= Val(GetD(l, one, 0)) /\ Val(GetD(l, one, 0)) <= wantHi
              THEN Gain(in, <<eOne>>) ELSE Gain(-out, <<>>)

\* the bedroom rule, were a difference of up to 2 bedrooms taken for close
BedroomRuleWithinTwo(l, p) ==
    IF ~IsNone(p.bedrooms)
    THEN ExactRule(l, Val(p.bedrooms), "min_bedrooms", "max_bedrooms", "bedrooms", 10, 5, 2,
                   "Has the desired " \o IntStr(Val(p.bedrooms)) \o " bedrooms",
                   "Exactly " \o IntStr(Val(p.bedrooms)) \o " bedrooms as requested",
                   "Close to desired bedroom count (within 1)")
    ELSE IF ~IsNone(p.min_bedrooms) /\ ~IsNone(p.max_bedrooms)
    THEN RangeRule(l, Val(p.min_bedrooms), Val(p.max_bedrooms),
                   "min_bedrooms", "max_bedrooms", "bedrooms", 8, 5,
                   "Bedroom options within desired range", "Bedrooms within desired range")
    ELSE Gain(0, <<>>)

\* Score bedroom match
BedroomRule(l, p) ==
    IF ~IsNone(p.bedrooms)
    THEN ExactRule(l, Val(p.bedrooms), "min_bedrooms", "max_bedrooms", "bedrooms", 10, 5, 1,
                   "Has the desired " \o IntStr(Val(p.bedrooms)) \o " bedrooms",
                   "Exactly " \o IntStr(Val(p.bedrooms)) \o " bedrooms as requested",
                   "Close to desired bedroom count (within 1)")
    ELSE IF ~IsNone(p.min_bedrooms) /\ ~IsNone(p.max_bedrooms)
    THEN RangeRule(l, Val(p.min_bedrooms), Val(p.max_bedrooms),
                   "min_bedrooms", "max_bedrooms", "bedrooms", 8, 5,
                   "Bedroom options within desired range", "Bedrooms within desired range")
    ELSE Gain(0, <<>>)

\* Score bathroom match; counts are in halves, so the tolerance 0.5 is 1 and the
\* penalty bathrooms_diff * 2 is the difference in halves
BathroomRule(l, p) ==
    IF ~IsNone(p.bathrooms)
    THEN LET r == ExactRule(l, Val(p.bathrooms), "min_bathrooms", "max_bathrooms", "bathrooms",
                            8, 4, 1,
                            "Has the desired " \o HalvesStr(Val(p.bathrooms)) \o " bathrooms",
                            "Exactly " \o HalvesStr(Val(p.bathrooms)) \o " bathrooms as requested",
                            "Close to desired bathroom count")
         IN  IF r.err = "" /\ r.d < 0 THEN [r EXCEPT !.d = r.d \div 2] ELSE r
    ELSE IF ~IsNone(p.min_bathrooms) /\ ~IsNone(p.max_bathrooms)
    THEN RangeRule(l, Val(p.min_bathrooms), Val(p.max_bathrooms),
                   "min_bathrooms", "max_bathrooms", "bathrooms", 6, 4,
                   "Bathroom options within desired range", "Bathrooms within desired range")
    ELSE Gain(0, <<>>)

\* int(x) of the quotient a / b of non-negative numbers, b > 0
Trunc(a, b) == a \div b

RECURSIVE Pow2Mod(_, _)
\* 2^n modulo m
Pow2Mod(n, m) == IF n = 0 THEN 1 % m ELSE (2 * Pow2Mod(n - 1, m)) % m

RECURSIVE Log2Floor(_, _)
\* the binary exponent of a / m: the e with 2^e <= a / m < 2^(e + 1)
Log2Floor(a, m) ==
    IF a >= 2 * m THEN Log2Floor(a, 2 * m) + 1
    ELSE IF a < m THEN Log2Floor(2 * a, m) - 1 ELSE 0

\* int((a / m) * k) in double precision, for whole a >= 0, m > 0, k > 0. The product
\* differs from the exact a * k / m only by rounding, so int() differs from the exact
\* integer part only where a * k / m is a whole number E and the product comes out
\* below E: the quotient a / m was rounded down (rho is what the division leaves
\* at 53 bits) by more than half the spacing of the doubles below E after the
\* multiplication by k.
FloatPenalty(a, m, k) ==
    LET E == (a * k) \div m
        ex == Log2Floor(a, m)
        rho == (a * Pow2Mod(52 - ex, m)) % m
        odd == (a * Pow2Mod(52 - ex, 2 * m)) % (2 * m) >= m
        eb == IF Pow2(Log2Floor(E, 1)) = E THEN Log2Floor(E, 1) - 1 ELSE Log2Floor(E, 1)
        down == rho # 0 /\ (2 * rho < m \/ (2 * rho = m /\ ~odd))
        below == IF eb >= ex THEN 2 * k * rho > m * Pow2(eb - ex)
                 ELSE 2 * k * rho * Pow2(ex - eb) > m
    IN  IF a = 0 \/ (a * k) % m # 0 THEN E
        ELSE IF down /\ below THEN E - 1 ELSE E

\* Score price match. P is the listing price in hundredths, as the preference bounds are;
\* for a bound that is not a whole number of dollars the quotient of the penalty is
\* taken exactly
PriceRule(l, p) ==
    IF IsNone(p.min_price) /\ IsNone(p.max_price) THEN Gain(0, <<>>)
    ELSE IF IsNone(GetD(l, "price", 0)) THEN Raise("TypeError")
    ELSE LET P == 100 * Val(GetD(l, "price", 0))
         IN  IF ~IsNone(p.min_price) /\ ~IsNone(p.max_price)
             THEN LET lo == Val(p.min_price)
                      hi == Val(p.max_price)
                  IN  IF lo <= P /\ P <= hi THEN Gain(15, <<"Price within your budget range">>)
                      ELSE IF P < lo
                      THEN Gain(5, <<"Price below your minimum budget (good value)">>)
                      ELSE IF 10 * P <= 11 * hi
                      THEN Gain(3, <<"Price slightly over your maximum budget">>)
                      ELSE IF hi = 0 THEN Raise("ZeroDivisionError")
                      ELSE IF hi % 100 # 0 THEN Gain(-Trunc((P - hi) * 20, hi), <<>>)
                      ELSE Gain(-FloatPenalty((P - hi) \div 100, hi \div 100, 20), <<>>)
             ELSE IF ~IsNone(p.max_price)
             THEN LET hi == Val(p.max_price)
                  IN  IF P <= hi
                      THEN IF hi = 0 THEN Raise("ZeroDivisionError")
                           ELSE IF 10 * P <= 8 * hi
                           THEN Gain(15, <<"Significantly under your maximum budget">>)
                           ELSE Gain(15, <<"Within your maximum budget">>)
                      ELSE IF 10 * P <= 11 * hi
                      THEN Gain(2, <<"Slightly over your maximum budget">>)
                      ELSE IF hi = 0 THEN Raise("ZeroDivisionError")
                      ELSE IF hi % 100 # 0 THEN Gain(-Trunc((P - hi) * 25, hi), <<>>)
                      ELSE Gain(-FloatPenalty((P - hi) \div 100, hi \div 100, 25), <<>>)
             ELSE IF P >= Val(p.min_price)
                  THEN Gain(5, <<"Meets your minimum price requirement">>)
                  ELSE Gain(0, <<>>)

\* the property type rule, were it to tell of a listing of another type
PropertyTypeRuleTellsOther(l, p) ==
    IF IsNone(p.property_type) THEN Gain(0, <<>>)
    ELSE IF IsNone(GetD(l, "property_type", "")) THEN Raise("AttributeError")
    ELSE IF Lower(Val(GetD(l, "property_type", ""))) = Val(p.property_type)
         THEN Gain(8, <<"Matches your preferred " \o Val(p.property_type) \o " property type">>)
         ELSE Gain(0, <<"Not your preferred " \o Val(p.property_type) \o " property type">>)

\* Score property type match
PropertyTypeRule(l, p) ==
    IF IsNone(p.property_type) THEN Gain(0, <<>>)
    ELSE IF IsNone(GetD(l, "property_type", "")) THEN Raise("AttributeError")
    ELSE IF Lower(Val(GetD(l, "property_type", ""))) = Val(p.property_type)
         THEN Gain(8, <<"Matches your preferred " \o Val(p.property_type) \o " property type">>)
         ELSE Gain(0, <<>>)

\* desired_amenity.split('-')
RECURSIVE SplitHyphen(_)
SplitHyphen(s) ==
    IF \E i \in 1..Len(s) : Ch(s, i) = "-"
    THEN LET i == SetMin({x \in 1..Len(s) : Ch(s, x) = "-"})
         IN  <<SubSeq(s, 1, i - 1)>> \o SplitHyphen(SubSeq(s, i + 1, Len(s)))
    ELSE <<s>>

\* whether the desired tag is found, were only the whole tag looked for
AmenityFoundWhole(desired, amenities) ==
    \E n \in 1..Len(amenities) : Contains(Lower(amenities[n]), desired)

\* whether the desired tag is found in one of the listing's amenities (matching.py:378-382)
AmenityFound(desired, amenities) ==
    \E n \in 1..Len(amenities) :
        LET listing_amenity == Lower(amenities[n])
        IN  \/ Contains(listing_amenity, desired)
            \/ \E m \in 1..Len(SplitHyphen(desired)) :
                  Contains(listing_amenity, SplitHyphen(desired)[m])

RECURSIVE MatchedAmenities(_, _)
\* matched_amenities: the desired tags found, in the order of preferences['amenities']
MatchedAmenities(desired, amenities) ==
    IF desired = <<>> THEN <<>>
    ELSE (IF AmenityFound(Head(desired), amenities) THEN <<Head(desired)>> ELSE <<>>)
         \o MatchedAmenities(Tail(desired), amenities)

RECURSIVE Join(_, _)
\* sep.join(items)
Join(items, sep) ==
    IF items = <<>> THEN ""
    ELSE IF Len(items) = 1 THEN items[1]
    ELSE items[1] \o sep \o Join(Tail(items), sep)

\* ", ".join(items[:-1]) + " and " + items[-1]
JoinAnd(items) == Join(SubSeq(items, 1, Len(items) - 1), ", ") \o " and " \o items[Len(items)]

\* Score amenities match
AmenityRule(l, p) ==
    IF p.amenities = <<>> THEN Gain(0, <<>>)
    ELSE IF IsNone(GetD(l, "amenities", <<>>)) THEN Raise("TypeError")
    ELSE LET matched == MatchedAmenities(p.amenities, Val(GetD(l, "amenities", <<>>)))
         IN  IF matched = <<>> THEN Gain(0, <<>>)
             ELSE IF Len(matched) = 1
             THEN Gain(5, <<"Has your desired " \o matched[1] \o " amenity">>)
             ELSE Gain(5 * Len(matched),
                       <<"Includes your desired " \o JoinAnd(matched) \o " amenities">>)

\* miles = 69 * ((lat - ucr_lat)^2 + (lng - ucr_lng)^2)^0.5 is below m, for offsets
\* given in thousandths of a degree
MilesBelow(dlat, dlng, m) == 69 * 69 * (dlat * dlat + dlng * dlng) < m * m * 1000 * 1000

\* the proximity rule, were the near_ucr flag not looked at
ProximityRuleAnyQuery(l, p) ==
    IF ~(~IsNone(Get(l, "latitude")) /\ ~IsNone(Get(l, "longitude")))
    THEN Gain(0, <<>>)
    ELSE LET dlat == Val(Get(l, "latitude"))
             dlng == Val(Get(l, "longitude"))
         IN  IF MilesBelow(dlat, dlng, 1) THEN Gain(15, <<"Very close to UCR (less than 1 mile)">>)
             ELSE IF MilesBelow(dlat, dlng, 2) THEN Gain(10, <<"Close to UCR (less than 2 miles)">>)
             ELSE IF MilesBelow(dlat, dlng, 5) THEN Gain(5, <<"Within 5 miles of UCR">>)
             ELSE Gain(0, <<>>)

\* Score proximity to UCR if relevant
ProximityRule(l, p) ==
    IF ~(p.near_ucr /\ ~IsNone(Get(l, "latitude")) /\ ~IsNone(Get(l, "longitude")))
    THEN Gain(0, <<>>)
    ELSE LET dlat == Val(Get(l, "latitude"))
             dlng == Val(Get(l, "longitude"))
         IN  IF MilesBelow(dlat, dlng, 1) THEN Gain(15, <<"Very close to UCR (less than 1 mile)">>)
             ELSE IF MilesBelow(dlat, dlng, 2) THEN Gain(10, <<"Close to UCR (less than 2 miles)">>)
             ELSE IF MilesBelow(dlat, dlng, 5) THEN Gain(5, <<"Within 5 miles of UCR">>)
             ELSE Gain(0, <<>>)

\* set(tokens)
SetOf(seq) == {seq[n] : n \in 1..Len(seq)}

\* the keyword rule, were every keyword of the query counted as often as it occurs there
KeywordRuleCounted(l, p, avail, tok_ok, sw) ==
    IF p.keywords = <<>> THEN Gain(0, <<>>)
    ELSE IF IsNone(GetD(l, "description", "")) \/ IsNone(GetD(l, "title", ""))
    THEN Raise("AttributeError")
    ELSE LET listing_tokens ==
                 PreprocessText(Lower(Val(GetD(l, "description", ""))) \o " "
                                \o Lower(Val(GetD(l, "title", ""))), avail, tok_ok, sw)
             n == Cardinality({i \in 1..Len(p.keywords) : p.keywords[i] \in SetOf(listing_tokens)})
         IN  IF n >= 3 THEN Gain(2 * n, <<"Many of your keywords match the description">>)
             ELSE IF n > 0 THEN Gain(2 * n, <<"Some of your keywords match the description">>)
             ELSE Gain(0, <<>>)

\* Keyword matching for description
KeywordRule(l, p, avail, tok_ok, sw) ==
    IF p.keywords = <<>> THEN Gain(0, <<>>)
    ELSE IF IsNone(GetD(l, "description", "")) \/ IsNone(GetD(l, "title", ""))
    THEN Raise("AttributeError")
    ELSE LET listing_tokens ==
                 PreprocessText(Lower(Val(GetD(l, "description", ""))) \o " "
                                \o Lower(Val(GetD(l, "title", ""))), avail, tok_ok, sw)
             matching_keywords == SetOf(p.keywords) \cap SetOf(listing_tokens)
             n == Cardinality(matching_keywords)
         IN  IF n >= 3 THEN Gain(2 * n, <<"Many of your keywords match the description">>)
             ELSE IF n > 0 THEN Gain(2 * n, <<"Some of your keywords match the description">>)
             ELSE Gain(0, <<>>)

\* the rules, were the keywords matched before the amenities and the proximity
RulesKeywordsEarly(l, p, avail, tok_ok, sw) ==
    <<BedroomRule(l, p), BathroomRule(l, p), PriceRule(l, p), PropertyTypeRule(l, p),
      KeywordRule(l, p, avail, tok_ok, sw), AmenityRule(l, p), ProximityRule(l, p)>>

\* the rules in the order the function applies them
Rules(l, p, avail, tok_ok, sw) ==
    <<BedroomRule(l, p), BathroomRule(l, p), PriceRule(l, p), PropertyTypeRule(l, p),
      AmenityRule(l, p), ProximityRule(l, p), KeywordRule(l, p, avail, tok_ok, sw)>>

RECURSIVE Accumulate(_, _, _)
\* score and explanation after the rules from the n-th on, or the first error raised
Accumulate(rules, n, acc) ==
    IF n > Len(rules) THEN acc
    ELSE IF rules[n].err # "" THEN [raised |-> rules[n].err, score |-> 0, explanation |-> <<>>]
    ELSE Accumulate(rules, n + 1,
                    [acc EXCEPT !.score = @ + rules[n].d, !.explanation = @ \o rules[n].e])

\* calculate_listing_score(listing, preferences)
CalculateListingScore(l, p, avail, tok_ok, sw) ==
    Accumulate(Rules(l, p, avail, tok_ok, sw), 1,
               [raised |-> "", score |-> 0, explanation |-> <<>>])

\* ------------------------------------------------------------------ find_matches

\* the position an entry of score sc takes in a list already sorted by descending
\* score when ties go before the entries that came earlier
InsertAtFront(sorted, sc) == Cardinality({n \in 1..Len(sorted) : sorted[n].score > sc}) + 1

\* the position an entry of score sc takes in a list already sorted by descending
\* score: behind every entry that scores at least as much, list.sort being stable
InsertAt(sorted, sc) == Cardinality({n \in 1..Len(sorted) : sorted[n].score >= sc}) + 1

RECURSIVE SortByScore(_)
\* scored_listings.sort(key=lambda x: x['score'], reverse=True)
SortByScore(seq) ==
    IF seq = <<>> THEN <<>>
    ELSE LET rest == SortByScore(SubSeq(seq, 1, Len(seq) - 1))
             x == seq[Len(seq)]
             at == InsertAt(rest, x.score)
         IN  SubSeq(rest, 1, at - 1) \o <<x>> \o SubSeq(rest, at, Len(rest))

\* the slice, were it taken from the end of the sequence
SliceFromEnd(seq, n) ==
    IF n >= 0 THEN SubSeq(seq, Len(seq) - Min(n, Len(seq)) + 1, Len(seq))
    ELSE SubSeq(seq, 1, Max(Len(seq) + n, 0))

\* seq[:n]
SliceTo(seq, n) ==
    IF n >= 0 THEN SubSeq(seq, 1, Min(n, Len(seq)))
    ELSE SubSeq(seq, 1, Max(Len(seq) + n, 0))

\* scored_listings, before it is sorted: one entry per listing, in input order
ScoredListings(ls, p, avail, tok_ok, sw) ==
    [n \in 1..Len(ls) |->
        LET result == CalculateListingScore(ls[n], p, avail, tok_ok, sw)
        IN  [listing |-> ls[n], score |-> result.score, explanation |-> result.explanation,
             raised |-> result.raised]]

\* a returned value, and an error raised to the caller
Return(v) == [raised |-> "", value |-> v]
Throw(err) == [raised |-> err, value |-> <<>>]

\* find_matches(query, listings, top_n)
FindMatches(q, ls, n, avail, tok_ok, sw) ==
    LET preferences == ExtractPreferences(q, avail, tok_ok, sw)
        scored == ScoredListings(ls, preferences, avail, tok_ok, sw)
        failed == {i \in 1..Len(ls) : scored[i].raised # ""}
    IN  IF failed # {} THEN Throw(scored[SetMin(failed)].raised)
        ELSE Return(SliceTo(SortByScore(
                 [i \in 1..Len(ls) |-> [listing |-> scored[i].listing, score |-> scored[i].score,
                                        explanation |-> scored[i].explanation]]), n))

\* ------------------------------------------------------------------ generate_response

NoMatchesMessage ==
    "I couldn't find any listings matching your criteria. Please try a different search or adjust your requirements."

Footer ==
    "Click on any listing to view more details or adjust your search criteria for different results."

\* seq[:n] for n >= 0
FirstN(seq, n) == SubSeq(seq, 1, Min(n, Len(seq)))

\* the part of the response for the i-th match (matching.py:500-529): what is shown
\* of the listing, of its amenities and of the explanation
Entry(i, match) ==
    LET listing == match.listing
        amenities == IF IsNone(GetD(listing, "amenities", <<>>)) THEN <<>>
                     ELSE Val(GetD(listing, "amenities", <<>>))
    IN  [number |-> i,
         title |-> Get(listing, "title"),
         price |-> Get(listing, "price"),
         bedrooms |-> Get(listing, "bedrooms"),
         bathrooms |-> Get(listing, "bathrooms"),
         property_type |-> Get(listing, "property_type"),
         amenities |-> FirstN(amenities, 3),
         more |-> IF Len(amenities) > 3 THEN Len(amenities) - 3 ELSE 0,
         reasons |-> IF Len(match.explanation) <= 2 THEN match.explanation
                     ELSE FirstN(match.explanation, 3),
         other |-> IF Len(match.explanation) > 3 THEN Len(match.explanation) - 3 ELSE 0]

\* the context clause of the response (matching.py:472-495)
Context(p) ==
    [parts |-> (IF ~IsNone(p.bedrooms) THEN <<IntStr(Val(p.bedrooms)) \o "-bedroom">>
                ELSE IF ~IsNone(p.min_bedrooms) /\ ~IsNone(p.max_bedrooms)
                THEN <<IntStr(Val(p.min_bedrooms)) \o "-" \o IntStr(Val(p.max_bedrooms)) \o " bedroom">>
                ELSE <<>>)
               \o (IF ~IsNone(p.property_type) THEN <<Val(p.property_type)>> ELSE <<>>),
     budget |-> IF ~IsNone(p.max_price) /\ Val(p.max_price) # 0 THEN p.max_price ELSE None,
     amenities |-> p.amenities,
     near_ucr |-> p.near_ucr]

\* generate_response without the early return of lines 462-463
GenerateResponseNoGuard(q, matches, avail, tok_ok, sw) ==
    LET preferences == ExtractPreferences(q, avail, tok_ok, sw)
    IN  IF \E i \in 1..Len(matches) : IsNone(Get(matches[i].listing, "price"))
        THEN Throw("TypeError")
        ELSE Return([text |-> "Based on your search", extracted |-> TRUE,
                     context |-> Some(Context(preferences)),
                     entries |-> [i \in 1..Len(matches) |-> Entry(i, matches[i])],
                     footer |-> Footer])

\* generate_response(query, matches); extracted tells whether extract_preferences ran
GenerateResponse(q, matches, avail, tok_ok, sw) ==
    IF matches = <<>>
    THEN Return([text |-> NoMatchesMessage, extracted |-> FALSE, context |-> None,
                 entries |-> <<>>, footer |-> ""])
    ELSE LET preferences == ExtractPreferences(q, avail, tok_ok, sw)
         IN  IF \E i \in 1..Len(matches) : IsNone(Get(matches[i].listing, "price"))
             THEN Throw("TypeError")
             ELSE Return([text |-> "Based on your search", extracted |-> TRUE,
                          context |-> Some(Context(preferences)),
                          entries |-> [i \in 1..Len(matches) |-> Entry(i, matches[i])],
                          footer |-> Footer])

\* ------------------------------------------------------------------ inputs

MaxTokens == 4
MaxListings == 2
MaxTopN == 2
MaxPriceTokens == 4
MaxDigits == 5
MaxBedrooms == 5
MaxWords == 3
MaxLogged == 6
DefaultTopN == 5

\* the keys Listing.to_dict gives every listing, and those it adds for a multi-unit one
SingleKeys ==
    {"id", "title", "description", "price", "bedrooms", "bathrooms", "property_type",
     "latitude", "longitude", "amenities", "is_multi_unit"}
MultiKeys == SingleKeys \cup {"min_bedrooms", "max_bedrooms", "min_bathrooms", "max_bathrooms"}

\* a dict with every field None; a listing gives the keys it has and their values
Blank ==
    [keys |-> {}, id |-> None, title |-> None, description |-> None, price |-> None,
     bedrooms |-> None, bathrooms |-> None, property_type |-> None, latitude |-> None,
     longitude |-> None, amenities |-> None, is_multi_unit |-> None,
     min_bedrooms |-> None, max_bedrooms |-> None, min_bathrooms |-> None,
     max_bathrooms |-> None]

\* the listings the inputs are built of. 1 to 4 are fully populated (1 and 2 score alike
\* on the bedroom count, 3 is a multi-unit property); 5 is a multi-unit row whose
\* nullable bedroom columns are NULL; 6 is a dict that has a title and nothing else
ListingPool ==
    << [Blank EXCEPT !.keys = SingleKeys, !.id = Some(1), !.title = Some("Cozy Apartment"),
            !.description = Some("Quiet apartment with parking"), !.price = Some(1000),
            !.bedrooms = Some(2), !.bathrooms = Some(2), !.property_type = Some("Apartment"),
            !.latitude = Some(3), !.longitude = Some(4),
            !.amenities = Some(<<"Parking", "Pool">>), !.is_multi_unit = Some(FALSE)],
       [Blank EXCEPT !.keys = SingleKeys, !.id = Some(2), !.title = Some("Campus House"),
            !.description = Some("House 50 m from campus"), !.price = Some(1000),
            !.bedrooms = Some(2), !.bathrooms = Some(3), !.property_type = Some("House"),
            !.amenities = Some(<<"Pet Friendly Community", "Gym", "Laundry", "WiFi">>),
            !.is_multi_unit = Some(FALSE)],
       [Blank EXCEPT !.keys = MultiKeys, !.id = Some(3), !.title = Some("Grand Apartments"),
            !.description = Some("Studio and bedroom apartments"), !.price = Some(900),
            !.bedrooms = Some(1), !.bathrooms = Some(2), !.property_type = Some("apartment"),
            !.latitude = Some(20), !.longitude = Some(20),
            !.amenities = Some(<<>>), !.is_multi_unit = Some(TRUE),
            !.min_bedrooms = Some(1), !.max_bedrooms = Some(3),
            !.min_bathrooms = Some(2), !.max_bathrooms = Some(4)],
       [Blank EXCEPT !.keys = SingleKeys, !.id = Some(4), !.title = Some("Family Home"),
            !.description = Some("Furnished house"), !.price = Some(2000),
            !.bedrooms = Some(4), !.bathrooms = Some(5), !.property_type = Some("house"),
            !.latitude = Some(100), !.longitude = Some(0),
            !.amenities = Some(<<"Garage parking">>), !.is_multi_unit = Some(FALSE)],
       [Blank EXCEPT !.keys = MultiKeys, !.id = Some(5), !.title = Some("New Complex"),
            !.description = Some("Opening soon"), !.price = Some(1500),
            !.bedrooms = Some(0), !.bathrooms = Some(2), !.property_type = Some("apartment"),
            !.amenities = Some(<<>>), !.is_multi_unit = Some(TRUE),
            !.min_bathrooms = Some(2), !.max_bathrooms = Some(2)],
       [Blank EXCEPT !.keys = {"title"}, !.title = Some("Room")] >>

\* the listings of the pool that have every key with a value (coordinates aside)
FullyPopulated(l) ==
    /\ SingleKeys \subseteq l.keys
    /\ \A k \in l.keys \ {"latitude", "longitude"} : ~IsNone(l[k])

\* the sequences of at most n different listings of the pool
RECURSIVE ListingSeqsOf(_)
ListingSeqsOf(n) ==
    IF n = 0 THEN {<<>>}
    ELSE ListingSeqsOf(n - 1) \cup
         {Append(ls, ListingPool[i]) :
             ls \in {x \in ListingSeqsOf(n - 1) : Len(x) = n - 1},
             i \in 1..Len(ListingPool)}

Distinct(ls) == \A i, j \in 1..Len(ls) : i # j => ls[i] # ls[j]

ListingSeqs == {ls \in ListingSeqsOf(MaxListings) : Distinct(ls)}

TopNs == (-1..MaxTopN) \cup {DefaultTopN}

RankQueries ==
    {"", "2 bed", "2-4 bedroom", "2-4 bedrooms", "under $0", "1.5 bath house near UCR",
     "Apartment under $1,200 with parking"}

\* the pieces the queries of the extraction runs are built of
ExtractTokens == {"2", "-4", ".5", " ", "bedroom", "bed", "BR", "s", "Studio", "bath"}

RECURSIVE TokenStrings(_)
\* the concatenations of at most n tokens
TokenStrings(n) ==
    IF n = 0 THEN {""}
    ELSE TokenStrings(n - 1) \cup {q \o t : q \in TokenStrings(n - 1), t \in ExtractTokens}

\* a decimal point is followed by one digit only, so that halves hold every bathroom count
OneDecimal(q) ==
    \A i \in 1..Len(q) :
        Ch(q, i) = "." => ~(i + 2 <= Len(q) /\ IsDigit(Ch(q, i + 1)) /\ IsDigit(Ch(q, i + 2)))

ExtractQueries == {q \in TokenStrings(MaxTokens) : OneDecimal(q)}

\* the coordinates of the listings of the scoring runs, as offsets from the reference
\* point in thousandths of a degree: 14 and 15, 28 and 29, 72 and 73 thousandths lie on
\* either side of 1, 2 and 5 miles; a listing can lack either coordinate
Coordinates ==
    {<<Some(x), Some(y)>> : x \in {0, 7, 14, 15, 28, 29, 72, 73, 145}, y \in {0, -20}}
        \cup {<<None, Some(0)>>, <<Some(0), None>>, <<None, None>>}

\* the amenities of the listings of the scoring runs
AmenityLists ==
    {<<>>, <<"Pet Friendly Community", "Gym">>, <<"Stairs", "POOL", "WiFi">>, <<"Pet-Friendly">>}

\* listings that differ in what they offer: single units in the bedroom count, in the
\* price, in the coordinates and amenities; multi-unit properties in the bedroom range
OfferListings ==
    {[ListingPool[1] EXCEPT !.bedrooms = Some(b)] : b \in 0..MaxBedrooms}
        \cup {ListingPool[2]}
        \cup {[ListingPool[1] EXCEPT !.price = Some(x)] :
                  x \in {0, 500, 800, 801, 899, 900, 1000, 1001, 1100, 1101, 1210, 1211, 1500,
                         2160, 3000}}
        \cup {[ListingPool[1] EXCEPT !.latitude = c[1], !.longitude = c[2], !.amenities = Some(a)] :
                  c \in Coordinates, a \in AmenityLists}
        \cup {[ListingPool[3] EXCEPT !.min_bedrooms = Some(lo), !.max_bedrooms = Some(hi)] :
                  lo \in 0..MaxBedrooms, hi \in 0..MaxBedrooms}

OfferQueries ==
    {"", "3 bed", "studio", "near ucr", "close to campus", "pet gym pool",
     "ac wifi near campus", "3 bed near ucr with pool", "2-4 bedrooms", "$1000",
     "under $1000", "over $1000", "$1500-$1000", "house 50 m from campus",
     "campus campus house", "1.5 bath", "3 bath"}

\* the pieces the queries of the price runs are built of
PriceTokens == {"$", "3", "1000", "under ", "over ", " to ", "-", " "}

RECURSIVE PriceStrings(_)
\* the concatenations of at most n price tokens
PriceStrings(n) ==
    IF n = 0 THEN {""}
    ELSE PriceStrings(n - 1) \cup {q \o t : q \in PriceStrings(n - 1), t \in PriceTokens}

\* no number of the query has more than MaxDigits digits
ShortNumbers(q) == \A i \in 1..(Len(q) - MaxDigits) : \E j \in i..(i + MaxDigits) : ~IsDigit(Ch(q, j))

PriceQueries == {q \in PriceStrings(MaxPriceTokens) : ShortNumbers(q)}

\* words of which some hold a keyword of extract_preferences inside them
Words ==
    {"jackson", "ac", "studious", "studio", "hover", "over", "climax", "admin", "500", "2",
     "bed", "bedtime", "bath", "bathe", "housekeeper", "house", "carpet"}

RECURSIVE WordStrings(_)
\* at most n of the words, one blank between them
WordStrings(n) ==
    IF n = 0 THEN {""}
    ELSE WordStrings(n - 1) \cup Words
             \cup {q \o " " \o w : q \in WordStrings(n - 1) \ {""}, w \in Words}

\* what the import block and __init__ can leave behind: nltk_available, whether the
\* tokenizer's data loads, and the stop-word set chosen
Primary == <<TRUE, TRUE, "nltk">>
Fallback == <<FALSE, FALSE, "basic">>
Backends == {Primary, <<TRUE, FALSE, "nltk">>, <<TRUE, TRUE, "basic">>, <<TRUE, FALSE, "basic">>, Fallback}

\* the arguments of the calls one matcher serves in a row
DetQueries == {"2 bed", "house 50 m from campus"}
DetListingSeqs == {<<>>, <<ListingPool[1], ListingPool[2]>>, <<ListingPool[4], ListingPool[2]>>}
DetTopNs == {1, DefaultTopN}

\* ------------------------------------------------------------------ the matcher's operations

\* the warnings one preprocess_text call logs: one when word_tokenize raises
\* (matching.py:75-76)
TokenizationWarnings(avail, tok_ok) == IF avail /\ ~tok_ok THEN 1 ELSE 0

\* the preprocess_text calls of calculate_listing_score(l, p): the one of the keyword
\* rule (matching.py:421), reached if the keywords are not empty and nothing raises
ScoreCalls(l, p, avail, tok_ok, sw) ==
    IF p.keywords # <<>> /\ CalculateListingScore(l, p, avail, tok_ok, sw).raised = "" THEN 1 ELSE 0

\* the preprocess_text calls of find_matches(q, ls, top_n): the one of extract_preferences
\* and those of the listings scored, up to the first that raises
FindCalls(q, ls, avail, tok_ok, sw) ==
    LET p == ExtractPreferences(q, avail, tok_ok, sw)
        failed == {i \in 1..Len(ls) : CalculateListingScore(ls[i], p, avail, tok_ok, sw).raised # ""}
        last == IF failed = {} THEN Len(ls) ELSE SetMin(failed)
    IN  1 + Cardinality({i \in 1..last : ScoreCalls(ls[i], p, avail, tok_ok, sw) = 1})

\* the log after the method has called preprocess_text calls times
Logged(calls) ==
    IF TokenizationWarnings(nltk_available, tokenizer_ok) = 0 THEN logged ELSE logged + calls

\* import app.matching (matching.py:6-25): import nltk and from nltk.stem import
\* PorterStemmer stand before the try block, the imports of the corpus and of the
\* tokenizer inside it
DoImport ==
    /\ op = "unloaded"
    /\ op' = "import"
    /\ IF "package" \notin resources
       THEN ret' = Throw("ModuleNotFoundError") /\ UNCHANGED <<nltk_available, logged>>
       ELSE /\ ret' = Return(<<>>)
            /\ nltk_available' = ("modules" \in resources)
            /\ logged' = IF "modules" \in resources THEN logged ELSE logged + 1
    /\ UNCHANGED <<tokenizer_ok, stop_words, query, listings, top_n, given, first, resources>>

\* ListingMatcher() (matching.py:48-62); no call has run on the new matcher
DoConstruct ==
    /\ op = "import"
    /\ ret.raised = ""
    /\ op' = "none"
    /\ stop_words' = IF nltk_available /\ "stopwords" \in resources THEN "nltk" ELSE "basic"
    /\ UNCHANGED <<nltk_available, tokenizer_ok, query, listings, top_n, ret, given, first,
                   resources, logged>>

\* the module is imported and ListingMatcher() constructed under a backend of B
InitMatcher(B) ==
    /\ \E b \in B :
          /\ nltk_available = b[1] /\ tokenizer_ok = b[2] /\ stop_words = b[3]
          /\ resources = {"package"} \cup (IF b[1] THEN {"modules"} ELSE {})
                              \cup (IF b[3] = "nltk" THEN {"stopwords"} ELSE {})
          /\ logged = IF b[1] THEN 0 ELSE 1
    /\ op = "none"
    /\ ret = Return(<<>>)
    /\ given = <<>>
    /\ first = None

\* no method assigns to the module's flag or to the matcher's attributes, and a call
\* leaves its arguments as they are
Unchanged ==
    UNCHANGED <<nltk_available, tokenizer_ok, stop_words, query, listings, top_n, first, resources>>

\* matcher.extract_preferences(query)
DoExtractPreferences ==
    /\ op = "none"
    /\ op' = "extract_preferences"
    /\ ret' = Return(ExtractPreferences(query, nltk_available, tokenizer_ok, stop_words))
    /\ logged' = Logged(1)
    /\ UNCHANGED given
    /\ Unchanged

\* preprocess_text, were its except branch to switch the matcher to the basic stop
\* words for good
DoPreprocessTextFallsBack ==
    /\ op = "none"
    /\ op' = "preprocess_text"
    /\ ret' = Return(PreprocessText(query, nltk_available, tokenizer_ok, stop_words))
    /\ stop_words' = IF UsesWordTokenize(nltk_available, tokenizer_ok) THEN stop_words ELSE "basic"
    /\ logged' = Logged(1)
    /\ UNCHANGED <<given, nltk_available, tokenizer_ok, query, listings, top_n, first, resources>>

\* matcher.preprocess_text(query)
DoPreprocessText ==
    /\ op = "none"
    /\ op' = "preprocess_text"
    /\ ret' = Return(PreprocessText(query, nltk_available, tokenizer_ok, stop_words))
    /\ logged' = Logged(1)
    /\ UNCHANGED given
    /\ Unchanged

\* matcher.calculate_listing_score(listings[0], matcher.extract_preferences(query))
DoCalculateListingScore ==
    /\ op = "none"
    /\ listings # <<>>
    /\ op' = "calculate_listing_score"
    /\ LET result == CalculateListingScore(
                         listings[1],
                         ExtractPreferences(query, nltk_available, tokenizer_ok, stop_words),
                         nltk_available, tokenizer_ok, stop_words)
       IN  ret' = IF result.raised # "" THEN Throw(result.raised)
                  ELSE Return([score |-> result.score, explanation |-> result.explanation])
    /\ logged' = Logged(FindCalls(query, <<listings[1]>>, nltk_available, tokenizer_ok, stop_words))
    /\ UNCHANGED given
    /\ Unchanged

\* find_matches, were it to sort the listings it is given in place
DoFindMatchesSortsInput ==
    /\ op = "none"
    /\ op' = "find_matches"
    /\ ret' = FindMatches(query, listings, top_n, nltk_available, tokenizer_ok, stop_words)
    /\ logged' = Logged(FindCalls(query, listings, nltk_available, tokenizer_ok, stop_words))
    /\ LET all == FindMatches(query, listings, Len(listings), nltk_available, tokenizer_ok, stop_words)
       IN  listings' = IF all.raised # "" THEN listings
                       ELSE [i \in 1..Len(listings) |-> all.value[i].listing]
    /\ UNCHANGED <<given, nltk_available, tokenizer_ok, stop_words, query, top_n, first, resources>>

\* matcher.find_matches(query, listings, top_n)
DoFindMatches ==
    /\ op = "none"
    /\ op' = "find_matches"
    /\ ret' = FindMatches(query, listings, top_n, nltk_available, tokenizer_ok, stop_words)
    /\ logged' = Logged(FindCalls(query, listings, nltk_available, tokenizer_ok, stop_words))
    /\ UNCHANGED given
    /\ Unchanged

\* matcher.generate_response(query, matches), matches being what find_matches returned
DoGenerateResponse ==
    /\ op = "find_matches"
    /\ ret.raised = ""
    /\ op' = "generate_response"
    /\ given' = ret.value
    /\ ret' = GenerateResponse(query, ret.value, nltk_available, tokenizer_ok, stop_words)
    /\ logged' = Logged(IF ret.value = <<>> THEN 0 ELSE 1)
    /\ Unchanged

\* the caller takes the result and prepares the arguments of its next call; first
\* keeps the arguments and the result of the first find_matches
NextCall ==
    /\ op # "none"
    /\ logged < MaxLogged
    /\ op' = "none"
    /\ query' \in DetQueries
    /\ listings' \in DetListingSeqs
    /\ top_n' \in DetTopNs
    /\ first' = IF IsNone(first) /\ op = "find_matches"
                THEN Some([query |-> query, listings |-> listings, top_n |-> top_n, ret |-> ret])
                ELSE first
    /\ ret' = Return(<<>>)
    /\ given' = <<>>
    /\ UNCHANGED <<nltk_available, tokenizer_ok, stop_words, resources, logged>>

\* ------------------------------------------------------------------ specifications

\* extraction of the preferences of one query built of the tokens
InitExtract ==
    /\ InitMatcher({Fallback})
    /\ query \in ExtractQueries
    /\ listings = <<>>
    /\ top_n = DefaultTopN

NextExtract == DoExtractPreferences

SpecExtract == InitExtract /\ [][NextExtract]_vars

\* extraction of the preferences of one query built of the price tokens
InitPrice ==
    /\ InitMatcher({Fallback})
    /\ query \in PriceQueries
    /\ listings = <<>>
    /\ top_n = DefaultTopN

SpecPrice == InitPrice /\ [][NextExtract]_vars

\* extraction of the preferences of one query built of the words
InitWords ==
    /\ InitMatcher({Fallback})
    /\ query \in WordStrings(MaxWords)
    /\ listings = <<>>
    /\ top_n = DefaultTopN

SpecWords == InitWords /\ [][NextExtract]_vars

\* words that name a property type, or hold the keyword of one inside them
TypeWords == {"apt", "house", "dorm", "housekeeper", "bedroom", "2"}

\* extraction of the preferences of one query of one to three of the type words
InitTypes ==
    /\ InitMatcher({Fallback})
    /\ query \in TypeWords \cup {a \o " " \o b : a, b \in TypeWords}
                   \cup {a \o " " \o b \o " " \o c : a, b, c \in TypeWords}
    /\ listings = <<>>
    /\ top_n = DefaultTopN

SpecTypes == InitTypes /\ [][NextExtract]_vars

\* ranking and response for one query and one sequence of listings
InitRank ==
    /\ InitMatcher({Primary, Fallback})
    /\ query \in RankQueries
    /\ listings \in ListingSeqs
    /\ top_n \in TopNs

NextRank == DoFindMatches \/ DoGenerateResponse

SpecRank == InitRank /\ [][NextRank]_vars

\* scoring of one listing against the preferences of one query
InitScore ==
    /\ InitMatcher({Primary, Fallback})
    /\ query \in RankQueries
    /\ listings \in {<<ListingPool[i]>> : i \in 1..Len(ListingPool)}
    /\ top_n = DefaultTopN

NextScore == DoCalculateListingScore

SpecScore == InitScore /\ [][NextScore]_vars

\* scoring of one listing of the offers against the preferences of one query
InitOffer ==
    /\ InitMatcher({Primary, Fallback})
    /\ query \in OfferQueries
    /\ listings \in {<<l>> : l \in OfferListings}
    /\ top_n = DefaultTopN

SpecOffer == InitOffer /\ [][NextScore]_vars

\* the module is loaded, a matcher constructed and preprocess_text called, whatever
\* of the NLP package the environment has
InitLoad ==
    /\ resources \in SUBSET {"package", "modules", "stopwords"}
    /\ tokenizer_ok \in BOOLEAN
    /\ nltk_available = FALSE
    /\ stop_words = "unset"
    /\ logged = 0
    /\ op = "unloaded"
    /\ ret = Return(<<>>)
    /\ given = <<>>
    /\ first = None
    /\ query \in RankQueries
    /\ listings = <<>>
    /\ top_n = DefaultTopN

SpecLoad == InitLoad /\ [][DoImport \/ DoConstruct \/ DoPreprocessText]_vars

\* one matcher serving call after call, under any backend
InitDet ==
    /\ InitMatcher(Backends)
    /\ query \in DetQueries
    /\ listings \in DetListingSeqs
    /\ top_n \in DetTopNs

NextDet ==
    \/ DoFindMatches
    \/ DoGenerateResponse
    \/ DoExtractPreferences
    \/ DoPreprocessText
    \/ DoCalculateListingScore
    \/ NextCall

SpecDet == InitDet /\ [][NextDet]_vars

Spec == SpecRank

\* ------------------------------------------------------------------ properties

\* the position of a listing in the listings argument, whose entries differ
InputIndex(l) == CHOOSE n \in 1..Len(listings) : listings[n] = l

\* the score calculate_listing_score gives listing l for the query of the call
ScoreOf(l) ==
    CalculateListingScore(l, ExtractPreferences(query, nltk_available, tokenizer_ok, stop_words),
                          nltk_available, tokenizer_ok, stop_words).score

\* C1: find_matches is stable: two listings of the same score appear in the returned
\* sequence in the order they have in the input sequence.
C1_Stable ==
    (op = "find_matches" /\ ret.raised = "") =>
        \A i, j \in 1..Len(ret.value) :
            (i < j /\ ret.value[i].score = ret.value[j].score)
                => InputIndex(ret.value[i].listing) < InputIndex(ret.value[j].listing)

\* find_matches has returned two listings of the same score for a query that sets a
\* preference
C1_Witness ==
    /\ op = "find_matches" /\ ret.raised = "" /\ query # ""
    /\ \E i, j \in 1..Len(ret.value) :
           i < j /\ ret.value[i].score = ret.value[j].score /\ ret.value[i].score # 0

\* what find_matches returned is the top_n best of the listings: min(top_n, len) entries
\* of non-increasing score, no listing left out scoring more than one returned
Ranked ==
    /\ Len(ret.value) = Min(top_n, Len(listings))
    /\ \A i \in 1..(Len(ret.value) - 1) : ret.value[i].score >= ret.value[i + 1].score
    /\ \A n \in 1..Len(listings) :
           (\A i \in 1..Len(ret.value) : ret.value[i].listing # listings[n])
               => \A i \in 1..Len(ret.value) : ScoreOf(listings[n]) <= ret.value[i].score

\* C2: for every query, every listing sequence and every top_n = k >= 0, find_matches
\* returns exactly min(k, len(listings)) entries, ordered by non-increasing score, and
\* no listing that is not returned scores more than a returned one.
C2_TopN == (op = "find_matches" /\ top_n >= 0) => (ret.raised = "" /\ Ranked)

\* whenever find_matches does return, with top_n >= 0, what it returns is ranked
RankedWhenReturned == (op = "find_matches" /\ top_n >= 0 /\ ret.raised = "") => Ranked

\* C3: find_matches called with top_n < 0 fails fast with an invalid-argument error and
\* returns no ranked result.
C3_NegativeTopN == (op = "find_matches" /\ top_n < 0) => ret.raised = "ValueError"

\* C4: for every query, also one whose extracted price bound is 0, and every sequence
\* of fully populated listings, find_matches and generate_response complete without
\* raising an error.
C4_NeverRaises ==
    (/\ op \in {"find_matches", "generate_response"}
     /\ \A n \in 1..Len(listings) : FullyPopulated(listings[n])) => ret.raised = ""

\* the listing with every optional attribute the scorer reads present: an absent
\* numeric field 0, an absent collection or text empty
Defaulted(l) ==
    [k \in DOMAIN l |->
        IF k = "keys" THEN MultiKeys
        ELSE IF k \in {"latitude", "longitude", "id"} \/ (k \in l.keys /\ ~IsNone(l[k])) THEN l[k]
        ELSE IF k \in {"title", "description", "property_type"} THEN Some("")
        ELSE IF k = "amenities" THEN Some(<<>>)
        ELSE IF k = "is_multi_unit" THEN Some(FALSE)
        ELSE Some(0)]

\* C5: calculate_listing_score never fails on a listing with absent optional fields: an
\* absent numeric field counts as 0 and an absent collection or text as empty, for
\* single-unit and multi-unit listings alike.
C5_AbsentAsDefault ==
    (op = "calculate_listing_score" /\ ~FullyPopulated(listings[1])) =>
        LET d == CalculateListingScore(
                     Defaulted(listings[1]),
                     ExtractPreferences(query, nltk_available, tokenizer_ok, stop_words),
                     nltk_available, tokenizer_ok, stop_words)
        IN  /\ ret.raised = ""
            /\ d.raised = "" => ret.value = [score |-> d.score, explanation |-> d.explanation]

\* C6: a call of find_matches with the query, the listings and the top_n of the first
\* call, under the same backend, returns what the first call returned, whatever calls
\* were made in between.
C6_Deterministic ==
    (/\ op = "find_matches" /\ ~IsNone(first)
     /\ query = Val(first).query /\ listings = Val(first).listings /\ top_n = Val(first).top_n)
        => ret = Val(first).ret

\* a later call has repeated the arguments of the first, on a matcher whose tokenizer
\* fails, and has returned listings scored on a keyword
C6_Witness ==
    /\ op = "find_matches" /\ ~IsNone(first)
    /\ query = Val(first).query /\ listings = Val(first).listings /\ top_n = Val(first).top_n
    /\ nltk_available /\ ~tokenizer_ok
    /\ ret.raised = "" /\ ret.value # <<>>
    /\ "Many of your keywords match the description" \in SetOf(ret.value[1].explanation)

\* C7: for every query, find_matches(query, []) returns an empty sequence, and
\* generate_response(query, []) returns the fixed no-matches string without extracting
\* preferences and without raising.
C7_EmptyListings ==
    /\ (op = "find_matches" /\ listings = <<>>) => ret = Return(<<>>)
    /\ (op = "generate_response" /\ given = <<>>) =>
           (ret.raised = "" /\ ret.value.text = NoMatchesMessage /\ ~ret.value.extracted)

\* generate_response has answered a query that sets preferences with no match to show
C7_Witness ==
    /\ op = "generate_response" /\ given = <<>> /\ listings = <<>>
    /\ query = "Apartment under $1,200 with parking"

\* C8: in every preference record extract_preferences produces, for bedrooms and for
\* bathrooms: the exact field and the range fields are never both set, and min and max
\* are set together or not at all.
C8_ExactOrRange ==
    op = "extract_preferences" =>
        LET p == ret.value
        IN  /\ IsNone(p.bedrooms) \/ (IsNone(p.min_bedrooms) /\ IsNone(p.max_bedrooms))
            /\ IsNone(p.min_bedrooms) <=> IsNone(p.max_bedrooms)
            /\ IsNone(p.bathrooms) \/ (IsNone(p.min_bathrooms) /\ IsNone(p.max_bathrooms))
            /\ IsNone(p.min_bathrooms) <=> IsNone(p.max_bathrooms)

\* extract_preferences has read a query that both the exact and the range pattern of
\* the bedrooms match
C8_Witness ==
    /\ op = "extract_preferences"
    /\ BedroomMatches(Lower(query), DigitPositions(Lower(query)), "exact") # {}
    /\ BedroomMatches(Lower(query), DigitPositions(Lower(query)), "range") # {}
    /\ ~IsNone(ret.value.bedrooms)

\* C9: for the query "2-4 bedroom" extract_preferences sets min_bedrooms = 2 and
\* max_bedrooms = 4 and leaves bedrooms unset, so that a multi-unit listing with
\* min_bedrooms = 1 and max_bedrooms = 3 that find_matches ranks for this query receives
\* the range-overlap bedroom contribution of +8.
C9_RangeOverlap ==
    \A i \in 1..Len(ret.value) :
        LET l == ret.value[i].listing
            p == ExtractPreferences(query, nltk_available, tokenizer_ok, stop_words)
        IN  (/\ op = "find_matches" /\ query = "2-4 bedroom" /\ ret.raised = ""
             /\ IsMultiUnit(l) /\ l.min_bedrooms = Some(1) /\ l.max_bedrooms = Some(3))
                => /\ p.min_bedrooms = Some(2) /\ p.max_bedrooms = Some(4) /\ IsNone(p.bedrooms)
                   /\ BedroomRule(l, p) = Gain(8, <<"Bedroom options within desired range">>)
                   /\ "Bedroom options within desired range" \in SetOf(ret.value[i].explanation)

\* the occurrences <<i, j>> in s of a count s[i..j] followed, after optional
\* whitespace, by bedroom, bed or br
BedroomCounts(s) ==
    NumberWordMatches(s, DigitPositions(s), "digits", {"bedroom", "bed", "br"}, FALSE)

\* C10: for a query that contains a non-negative integer N followed, with optional
\* whitespace, by bedroom, bed or br, extract_preferences sets bedrooms to the N of the
\* first such occurrence; a query that mentions studio with no such count and no
\* bedroom range sets bedrooms = 0.
C10_FirstCount ==
    op = "extract_preferences" =>
        LET s == Lower(query)
            C == BedroomCounts(s)
        IN  /\ C # {} => ret.value.bedrooms = Some(ToInt(SubSeq(s, FirstMatch(C)[1], FirstMatch(C)[2])))
            /\ (C = {} /\ StudioMatches(s) # {}
                    /\ BedroomMatches(s, DigitPositions(s), "range") = {})
                   => ret.value.bedrooms = Some(0)

\* the number of the first bare $N of the query
FirstDollar(s) ==
    LET m == FirstNumber(DollarMatches(s, DigitPositions(s))) IN PriceOf(s, m[2], m[3])

\* the only price mention of s is a bare $N: no max phrase, min phrase or range
OnlyDollar(s) ==
    /\ DollarMatches(s, DigitPositions(s)) # {}
    /\ PhraseNumberMatches(s, DigitPositions(s), MaxPhrases) = {}
    /\ PhraseNumberMatches(s, DigitPositions(s), MinPhrases) = {}
    /\ PriceRangeMatches(s, DigitPositions(s)) = {}

\* C11: for a query whose only price mention is a bare $N, extract_preferences sets
\* min_price = 0.9 * N and max_price = 1.1 * N, the products being the floats the
\* multiplication gives; for "$1000" they are 900 and 1100 exactly.
C11_PriceBand ==
    (op = "extract_preferences" /\ OnlyDollar(Lower(query))) =>
        LET N == FirstDollar(Lower(query))
        IN  /\ ret.value.min_price = Some(FloatTimes(N, 9))
            /\ ret.value.max_price = Some(FloatTimes(N, 11))
            /\ N = 1000 => (ret.value.min_price = Some(90000) /\ ret.value.max_price = Some(110000))

\* extract_preferences has read a query that mentions the price $1000 and no other
C11_Witness ==
    /\ op = "extract_preferences" /\ OnlyDollar(Lower(query))
    /\ FirstDollar(Lower(query)) = 1000
    /\ ret.value.max_price = Some(110000)

\* C17: price extraction applies exactly one pattern class, the first that matches in
\* the order max phrase, min phrase, range, bare $N: with a max phrase only max_price
\* is set, with a min phrase and no max phrase only min_price.
C17_OnePriceClass ==
    op = "extract_preferences" =>
        LET s == Lower(query)
            D == DigitPositions(s)
            maxM == PhraseNumberMatches(s, D, MaxPhrases)
            minM == PhraseNumberMatches(s, D, MinPhrases)
            p == ret.value
        IN  /\ maxM # {} =>
                   /\ p.max_price = Some(100 * PriceOf(s, FirstNumber(maxM)[2], FirstNumber(maxM)[3]))
                   /\ IsNone(p.min_price)
            /\ (maxM = {} /\ minM # {}) =>
                   /\ p.min_price = Some(100 * PriceOf(s, FirstNumber(minM)[2], FirstNumber(minM)[3]))
                   /\ IsNone(p.max_price)
            /\ (maxM = {} /\ minM = {} /\ PriceRangeMatches(s, D) = {} /\ DollarMatches(s, D) = {})
                   => (IsNone(p.min_price) /\ IsNone(p.max_price))

\* extract_preferences has read a query with a min phrase and, after it, a max phrase
\* and has set the maximum alone
C17_Witness ==
    /\ op = "extract_preferences"
    /\ PhraseNumberMatches(Lower(query), DigitPositions(Lower(query)), MaxPhrases) # {}
    /\ PhraseNumberMatches(Lower(query), DigitPositions(Lower(query)), MinPhrases) # {}
    /\ ~IsNone(ret.value.max_price)
    /\ IsNone(ret.value.min_price)

\* every digit of s belongs to a bedroom or bathroom count or range: a number, or a
\* number - number, followed by one of the bedroom or bathroom words
OnlyRoomNumbers(s) ==
    LET D == DigitPositions(s)
        counts == NumberWordMatches(s, D, "digits", BedroomWords, FALSE)
                      \cup NumberWordMatches(s, D, "decimal", BathroomWords, FALSE)
        ranges == NumberRangeWordMatches(s, D, "digits", BedroomWords)
                      \cup NumberRangeWordMatches(s, D, "decimal", BathroomWords)
    IN  /\ D # {}
        /\ \A d \in D :
              \/ \E m \in counts : m[1] <= d /\ d <= m[2]
              \/ \E m \in ranges : (m[1] <= d /\ d <= m[2]) \/ (m[3] <= d /\ d <= m[4])

\* C18: a query with no price mention (no $, no max or min phrase, no "to") whose only
\* numbers are bedroom or bathroom counts or ranges leaves min_price and max_price unset.
C18_NoPriceFromRooms ==
    (/\ op = "extract_preferences"
     /\ ~Contains(Lower(query), "$") /\ ~Contains(Lower(query), "to")
     /\ \A w \in MaxPhrases \cup MinPhrases : ~Contains(Lower(query), w)
     /\ OnlyRoomNumbers(Lower(query)))
        => (IsNone(ret.value.min_price) /\ IsNone(ret.value.max_price))

\* the preferences calculate_listing_score was given
Preferences == ExtractPreferences(query, nltk_available, tokenizer_ok, stop_words)

\* the desired tag contained, or one of its hyphen-delimited components contained, in
\* some amenity of the listing, letter case aside
TagMatches(tag, amenities) ==
    \E n \in 1..Len(amenities) : \E i, j \in 1..Len(tag) :
        /\ i <= j /\ \A x \in i..j : Ch(tag, x) # "-"
        /\ (i = 1 /\ j = Len(tag)) \/ ((i = 1 \/ Ch(tag, i - 1) = "-") /\ (j = Len(tag) \/ Ch(tag, j + 1) = "-"))
        /\ Contains(Lower(amenities[n]), SubSeq(tag, i, j))

\* C12: a desired amenity tag matches a listing if some listing amenity, letter case
\* aside, contains the whole tag or one of its hyphen-delimited components; the amenities
\* add to the score exactly 5 times the number of desired tags that match: the score is
\* that much above the score of the same listing with no amenity desired.
C12_AmenityContribution ==
    (op = "calculate_listing_score" /\ Preferences.amenities # <<>>) =>
        LET l == listings[1]
            p == Preferences
            matching == {n \in 1..Len(p.amenities) : TagMatches(p.amenities[n], Val(l.amenities))}
            without == CalculateListingScore(l, [p EXCEPT !.amenities = <<>>],
                                             nltk_available, tokenizer_ok, stop_words)
        IN  /\ ret.raised = ""
            /\ ret.value.score = without.score + 5 * Cardinality(matching)

\* a listing with the amenity "Pet Friendly Community" has been scored for a query that
\* desires pet-friendly, gym and pool
C12_Witness ==
    /\ op = "calculate_listing_score"
    /\ Preferences.amenities = <<"pet-friendly", "pool", "gym">>
    /\ listings[1].amenities = Some(<<"Pet Friendly Community", "Gym">>)
    /\ ret.value.score = 10

\* 69 times the distance of the listing from the reference point is below m miles
Within(l, m) ==
    4761 * (Val(l.latitude) * Val(l.latitude) + Val(l.longitude) * Val(l.longitude)) < m * m * 1000000

\* what C13 says the proximity adds for listing l under preferences p
ProximityDue(l, p) ==
    IF ~p.near_ucr \/ IsNone(Get(l, "latitude")) \/ IsNone(Get(l, "longitude")) THEN 0
    ELSE IF Within(l, 1) THEN 15 ELSE IF Within(l, 2) THEN 10 ELSE IF Within(l, 5) THEN 5 ELSE 0

\* p holds no preference but the proximity flag and keywords, and no keyword occurs in
\* the listing's text: the score is the proximity contribution
OnlyProximity(l, p) ==
    /\ p = [InitialPreferences EXCEPT !.near_ucr = p.near_ucr, !.keywords = p.keywords]
    /\ KeywordRule(l, p, nltk_available, tokenizer_ok, stop_words) = Gain(0, <<>>)

\* C13: proximity is scored only when near_ucr is set and the listing has both
\* coordinates: +15 below 1 mile, +10 from 1 to below 2, +5 from 2 to below 5, nothing
\* from 5 miles on, and nothing at any distance when near_ucr is not set. The explanation
\* names the distance class exactly when it is scored.
C13_Proximity ==
    op = "calculate_listing_score" =>
        LET l == listings[1]
            p == Preferences
            due == ProximityDue(l, p)
            e == SetOf(ret.value.explanation)
        IN  /\ ret.raised = ""
            /\ OnlyProximity(l, p) => ret.value.score = due
            /\ "Very close to UCR (less than 1 mile)" \in e <=> due = 15
            /\ "Close to UCR (less than 2 miles)" \in e <=> due = 10
            /\ "Within 5 miles of UCR" \in e <=> due = 5

\* a listing about half a mile from the reference point has been scored +15 for a
\* query that asks for nothing but nearness
C13_Witness ==
    /\ op = "calculate_listing_score" /\ query = "near ucr"
    /\ listings[1].latitude = Some(7) /\ listings[1].longitude = Some(0)
    /\ ret.value.score = 15

\* the distance from N bedrooms to what listing l offers
BedroomDistance(l, N) ==
    IF IsMultiUnit(l)
    THEN IF Val(l.min_bedrooms) <= N /\ N <= Val(l.max_bedrooms) THEN 0
         ELSE Min(Abs(Val(l.min_bedrooms) - N), Abs(Val(l.max_bedrooms) - N))
    ELSE Abs(Val(l.bedrooms) - N)

\* C20: with preferences.bedrooms = N the bedroom contribution depends only on the
\* distance d from N to the listing's bedroom offer: d = 0 adds 10 and one explanation
\* entry that mentions N, d = 1 adds 5, d >= 2 takes 2 * d away and adds no explanation
\* entry. The contribution is what the score and the explanation have beyond those of
\* the same listing with no bedroom count desired.
C20_ExactBedrooms ==
    (op = "calculate_listing_score" /\ ~IsNone(Preferences.bedrooms)) =>
        LET l == listings[1]
            N == Val(Preferences.bedrooms)
            d == BedroomDistance(l, N)
            without == CalculateListingScore(l, [Preferences EXCEPT !.bedrooms = None],
                                             nltk_available, tokenizer_ok, stop_words)
            e == ret.value.explanation
        IN  /\ ret.raised = ""
            /\ ret.value.score - without.score = (IF d = 0 THEN 10 ELSE IF d = 1 THEN 5 ELSE -(2 * d))
            /\ d = 0 => \E n \in 1..Len(e) :
                            /\ Contains(e[n], IntStr(N))
                            /\ SubSeq(e, 1, n - 1) \o SubSeq(e, n + 1, Len(e)) = without.explanation
            /\ d >= 2 => e = without.explanation

\* C20 as amended: with preferences.bedrooms = N, a single-unit listing with N bedrooms
\* and a multi-unit listing with min_bedrooms <= N <= max_bedrooms get +10 and one
\* explanation entry that mentions N; any other listing is at the distance d of the claim
\* and gets +5 if d <= 1, and -2 * d with no explanation entry if d >= 2. A multi-unit
\* listing whose min_bedrooms exceeds its max_bedrooms, one of them being N, is at
\* distance 0 and gets +5.
C20_ExactBedroomsInRange ==
    (op = "calculate_listing_score" /\ ~IsNone(Preferences.bedrooms)) =>
        LET l == listings[1]
            N == Val(Preferences.bedrooms)
            d == BedroomDistance(l, N)
            full == IF IsMultiUnit(l) THEN Val(l.min_bedrooms) <= N /\ N <= Val(l.max_bedrooms)
                    ELSE l.bedrooms = Some(N)
            without == CalculateListingScore(l, [Preferences EXCEPT !.bedrooms = None],
                                             nltk_available, tokenizer_ok, stop_words)
            e == ret.value.explanation
        IN  /\ ret.raised = ""
            /\ ret.value.score - without.score = (IF full THEN 10 ELSE IF d <= 1 THEN 5 ELSE -(2 * d))
            /\ full => \E n \in 1..Len(e) :
                            /\ Contains(e[n], IntStr(N))
                            /\ SubSeq(e, 1, n - 1) \o SubSeq(e, n + 1, Len(e)) = without.explanation
            /\ d >= 2 => e = without.explanation

\* a multi-unit listing with min_bedrooms = 1 and max_bedrooms = 0 has been scored for
\* a query that desires 0 bedrooms, and come out as close to the desired count
C20_Witness ==
    /\ op = "calculate_listing_score" /\ Preferences.bedrooms = Some(0)
    /\ IsMultiUnit(listings[1]) /\ listings[1].min_bedrooms = Some(1)
    /\ listings[1].max_bedrooms = Some(0)
    /\ ret.value.explanation[1] = "Close to desired bedroom count (within 1)"

\* w stands in s as a word of its own: a word boundary before it and after it
WholeWord(s, w) == \E i \in 1..Len(s) : StartsAt(s, i, w) /\ Boundary(s, i) /\ Boundary(s, i + Len(w))

\* w stands in s with a word boundary after it and, before it, a word boundary or the
\* digits of the count it belongs to
CountWord(s, w) ==
    \E i \in 1..Len(s) :
        StartsAt(s, i, w) /\ Boundary(s, i + Len(w)) /\ (Boundary(s, i) \/ IsDigit(Ch(s, i - 1)))

\* w stands in s with a word boundary before it
WordHead(s, w) == \E i \in 1..Len(s) : StartsAt(s, i, w) /\ Boundary(s, i)

\* C19: in extract_preferences a bedroom, bathroom, price, property-type or amenity
\* pattern never fires on a keyword that occurs only inside a larger word: a bedroom or
\* bathroom preference is set only if one of its keywords ends a count at a word boundary
\* or studio stands as a word; a lone maximum or minimum price only if one of its phrases
\* starts at a word boundary; a property type or amenity tag only if one of its keywords
\* stands as a word.
C19_WordBoundaries ==
    op = "extract_preferences" =>
        LET s == Lower(query)
            p == ret.value
        IN  /\ (~IsNone(p.bedrooms) \/ ~IsNone(p.min_bedrooms) \/ ~IsNone(p.max_bedrooms))
                   => (WholeWord(s, "studio") \/ \E w \in BedroomWords : CountWord(s, w))
            /\ (~IsNone(p.bathrooms) \/ ~IsNone(p.min_bathrooms) \/ ~IsNone(p.max_bathrooms))
                   => \E w \in BathroomWords : CountWord(s, w)
            /\ (~IsNone(p.max_price) /\ IsNone(p.min_price)) => \E w \in MaxPhrases : WordHead(s, w)
            /\ (~IsNone(p.min_price) /\ IsNone(p.max_price)) => \E w \in MinPhrases : WordHead(s, w)
            /\ \A n \in 1..Len(property_types) :
                   p.property_type = Some(property_types[n][1])
                       => \E k \in 1..Len(property_types[n][2]) : WholeWord(s, property_types[n][2][k])
            /\ \A n \in 1..Len(amenity_keywords) :
                   amenity_keywords[n][1] \in SetOf(p.amenities)
                       => \E k \in 1..Len(amenity_keywords[n][2]) : WholeWord(s, amenity_keywords[n][2][k])

\* C14: with the tokenizer data, the stop-word corpus or the NLP package itself
\* unavailable, loading the module, constructing the matcher and calling preprocess_text
\* succeed without raising: without the tokenizer the tokens are those of whitespace
\* splitting, without the corpus the stop words are the built-in basic set, and
\* preprocess_text returns its sequence of strings.
C14_FallbackNeverFails ==
    /\ op = "import" => ret.raised = ""
    /\ op = "preprocess_text" =>
           /\ ret.raised = ""
           /\ ("stopwords" \notin resources \/ "modules" \notin resources) => stop_words = "basic"
           /\ (~tokenizer_ok \/ "modules" \notin resources)
                  => ret.value = FilterStem(Split(Lower(query)), stop_words)

\* C15: over any sequence of preprocess_text, extract_preferences and find_matches calls
\* made while the primary tokenizer is unavailable, the warning about it is logged at
\* most once in total.
C15_WarnedOnce == ~UsesWordTokenize(nltk_available, tokenizer_ok) => logged <= 1

C21_RangeBedrooms ==
    /\ (op = "calculate_listing_score" /\ IsNone(Preferences.bedrooms)
            /\ ~IsNone(Preferences.min_bedrooms) /\ ~IsNone(Preferences.max_bedrooms)) =>
           LET l == listings[1]
               lo == Val(Preferences.min_bedrooms)
               hi == Val(Preferences.max_bedrooms)
               fits == IF IsMultiUnit(l)
                       THEN lo <= Val(l.max_bedrooms) /\ hi >= Val(l.min_bedrooms)
                       ELSE lo <= Val(l.bedrooms) /\ Val(l.bedrooms) <= hi
               without == CalculateListingScore(
                              l, [Preferences EXCEPT !.min_bedrooms = None, !.max_bedrooms = None],
                              nltk_available, tokenizer_ok, stop_words)
           IN  /\ ret.raised = ""
               /\ ret.value.score - without.score = (IF fits THEN 8 ELSE -5)
    /\ (op = "calculate_listing_score" /\ ~IsNone(Preferences.bedrooms)) =>
           \A lo, hi \in {0, MaxBedrooms} :
               LET with == CalculateListingScore(
                               listings[1],
                               [Preferences EXCEPT !.min_bedrooms = Some(lo), !.max_bedrooms = Some(hi)],
                               nltk_available, tokenizer_ok, stop_words)
               IN  /\ ret.raised = ""
                   /\ ret.value.score = with.score
                   /\ ret.value.explanation = with.explanation

\* a multi-unit listing with 0 to 2 bedrooms, which overlaps the desired 2 to 4 without
\* lying inside it, has been scored and has the range entry in its explanation
C21_Witness ==
    /\ op = "calculate_listing_score" /\ query = "2-4 bedrooms" /\ ret.raised = ""
    /\ IsMultiUnit(listings[1])
    /\ listings[1].min_bedrooms = Some(0) /\ listings[1].max_bedrooms = Some(2)
    /\ ret.value.explanation[1] = "Bedroom options within desired range"

\* the price of the listing scored, in hundredths as the desired bounds are
PriceAsked == 100 * Val(listings[1].price)

\* what the score has beyond that of the same listing with no price bound desired
PriceContribution ==
    ret.value.score
        - CalculateListingScore(listings[1], [Preferences EXCEPT !.min_price = None, !.max_price = None],
                                nltk_available, tokenizer_ok, stop_words).score

\* C22: with both price bounds desired, a listing of price p >= 0 contributes +15 if
\* min_price <= p <= max_price, +5 if p < min_price, +3 if max_price < p <= 1.1 *
\* max_price, and otherwise -trunc(((p - max_price) / max_price) * 20); exactly one of
\* the four cases applies.
C22_BothBounds ==
    (op = "calculate_listing_score" /\ ~IsNone(Preferences.min_price)
        /\ ~IsNone(Preferences.max_price) /\ Val(Preferences.max_price) > 0) =>
        LET P == PriceAsked
            lo == Val(Preferences.min_price)
            hi == Val(Preferences.max_price)
            within == lo <= P /\ P <= hi
            below == P < lo
            slightly == hi < P /\ 10 * P <= 11 * hi
            c == PriceContribution
        IN  /\ ret.raised = ""
            /\ within => c = 15
            /\ below => c = 5
            /\ slightly => c = 3
            /\ ~(within \/ below \/ slightly) => c = -Trunc((P - hi) * 20, hi)
            /\ ~(within /\ below) /\ ~(within /\ slightly) /\ ~(below /\ slightly)

\* the explanation entries that the score has beyond those of the same listing with no
\* price bound desired: e is the explanation with the entries of entry taken out of
\* some place
PriceEntry(entry) ==
    LET e == ret.value.explanation
        without == CalculateListingScore(listings[1],
                                         [Preferences EXCEPT !.min_price = None, !.max_price = None],
                                         nltk_available, tokenizer_ok, stop_words).explanation
    IN  \E n \in 0..Len(without) :
            e = SubSeq(without, 1, n) \o entry \o SubSeq(without, n + 1, Len(without))

\* C23: with only max_price desired, a listing of price p contributes +15 if p <=
\* max_price, the explanation saying "significantly under" iff p <= 0.8 * max_price, +2
\* if max_price < p <= 1.1 * max_price, and otherwise -trunc(((p - max_price) /
\* max_price) * 25); with only min_price desired it contributes +5 if p >= min_price, and
\* 0 with no explanation entry otherwise; with neither desired the score does not depend
\* on the price.
C23_OneBound ==
    /\ (op = "calculate_listing_score" /\ IsNone(Preferences.min_price)
            /\ ~IsNone(Preferences.max_price) /\ Val(Preferences.max_price) > 0) =>
           LET P == PriceAsked
               hi == Val(Preferences.max_price)
               c == PriceContribution
           IN  /\ ret.raised = ""
               /\ P <= hi => c = 15
               /\ (P <= hi /\ 10 * P <= 8 * hi) => PriceEntry(<<"Significantly under your maximum budget">>)
               /\ (P <= hi /\ 10 * P > 8 * hi) => PriceEntry(<<"Within your maximum budget">>)
               /\ (hi < P /\ 10 * P <= 11 * hi) => c = 2
               /\ 10 * P > 11 * hi => c = -Trunc((P - hi) * 25, hi)
    /\ (op = "calculate_listing_score" /\ ~IsNone(Preferences.min_price)
            /\ IsNone(Preferences.max_price)) =>
           /\ ret.raised = ""
           /\ PriceAsked >= Val(Preferences.min_price) => PriceContribution = 5
           /\ PriceAsked < Val(Preferences.min_price) => PriceContribution = 0 /\ PriceEntry(<<>>)
    /\ (op = "calculate_listing_score" /\ IsNone(Preferences.min_price)
            /\ IsNone(Preferences.max_price) /\ ret.raised = "") =>
           \A x \in {0, 3000} :
               ret.value.score = CalculateListingScore([listings[1] EXCEPT !.price = Some(x)], Preferences,
                                                       nltk_available, tokenizer_ok, stop_words).score

\* the distinct stems common to the keywords of the query and the normalized
\* description and title of the listing scored
CommonStems ==
    LET text == PreprocessText(Lower(Val(listings[1].description)) \o " " \o Lower(Val(listings[1].title)),
                               nltk_available, tokenizer_ok, stop_words)
    IN  {k \in {Preferences.keywords[i] : i \in 1..Len(Preferences.keywords)} :
            \E j \in 1..Len(text) : text[j] = k}

\* C24: with a non-empty keyword sequence the keywords contribute exactly 2 times the
\* number of distinct stems common to the keywords and the normalized description and
\* title, a repeated keyword counting once; the explanation ends with the "many" entry
\* iff that number is at least 3, with the "some" entry iff it is 1 or 2, and has no
\* keyword entry iff it is 0. The contribution is what the score and the explanation have
\* beyond those of the same listing with no keywords.
C24_KeywordOverlap ==
    (op = "calculate_listing_score" /\ Preferences.keywords # <<>>) =>
        LET n == Cardinality(CommonStems)
            without == CalculateListingScore(listings[1], [Preferences EXCEPT !.keywords = <<>>],
                                             nltk_available, tokenizer_ok, stop_words)
        IN  /\ ret.raised = ""
            /\ ret.value.score = without.score + 2 * n
            /\ ret.value.explanation = without.explanation \o
                   (IF n >= 3 THEN <<"Many of your keywords match the description">>
                    ELSE IF n >= 1 THEN <<"Some of your keywords match the description">>
                    ELSE <<>>)

\* the listing "House 50 m from campus" has been scored for a query that names campus
\* twice and house once, and has the "some" entry
C24_Witness ==
    /\ op = "calculate_listing_score" /\ query = "campus campus house" /\ ret.raised = ""
    /\ listings[1] = ListingPool[2]
    /\ Cardinality(CommonStems) = 2
    /\ ret.value.explanation[Len(ret.value.explanation)] = "Some of your keywords match the description"

\* the rule an explanation entry comes from: 1 bedrooms, 2 bathrooms, 3 price,
\* 4 property type, 5 amenities, 6 proximity, 7 keywords
RuleOf(entry) ==
    IF Contains(entry, "bedroom") \/ Contains(entry, "Bedroom") THEN 1
    ELSE IF Contains(entry, "bathroom") \/ Contains(entry, "Bathroom") THEN 2
    ELSE IF Contains(entry, "budget") \/ Contains(entry, "price requirement") THEN 3
    ELSE IF Contains(entry, "property type") THEN 4
    ELSE IF Contains(entry, "amenit") THEN 5
    ELSE IF Contains(entry, "UCR") THEN 6
    ELSE IF Contains(entry, "keywords") THEN 7
    ELSE 0

\* the entries of an explanation come from the rules in their order, one a rule at most
InRuleOrder(e) ==
    /\ Len(e) <= 7
    /\ \A n \in 1..Len(e) : RuleOf(e[n]) # 0
    /\ \A n \in 1..Len(e) - 1 : RuleOf(e[n]) < RuleOf(e[n + 1])

\* C25: the explanation calculate_listing_score returns has its entries in the order of
\* the rules, bedrooms, bathrooms, price, property type, amenities, proximity, keywords,
\* at most one entry a rule and so at most 7; find_matches returns with each listing the
\* explanation calculate_listing_score gave it, unchanged.
C25_ExplanationOrder ==
    /\ (op = "calculate_listing_score" /\ ret.raised = "") => InRuleOrder(ret.value.explanation)
    /\ (op = "find_matches" /\ ret.raised = "") =>
           \A n \in 1..Len(ret.value) :
               LET result == CalculateListingScore(ret.value[n].listing, Preferences,
                                                   nltk_available, tokenizer_ok, stop_words)
               IN  /\ ret.value[n].explanation = result.explanation
                   /\ InRuleOrder(ret.value[n].explanation)

\* find_matches has returned two listings, the first of them with entries of the price,
\* property type, amenity and keyword rules
C25_Witness ==
    /\ op = "find_matches" /\ ret.raised = "" /\ Len(ret.value) = 2
    /\ Len(ret.value[1].explanation) = 4
    /\ RuleOf(ret.value[1].explanation[1]) = 3
    /\ RuleOf(ret.value[1].explanation[4]) = 7

\* C26: the preferences of the empty query have every field unset, no amenities,
\* near_ucr false and no keywords; against them calculate_listing_score gives every
\* listing, whatever fields it lacks, the score 0 and an empty explanation, so that
\* find_matches("", listings, k) returns for k >= 0 the first min(k, len(listings))
\* listings in the order given, each with score 0.
C26_EmptyQuery ==
    query = "" =>
        /\ Preferences = InitialPreferences
        /\ \A i \in 1..Len(ListingPool) :
               LET result == CalculateListingScore(ListingPool[i], Preferences,
                                                   nltk_available, tokenizer_ok, stop_words)
               IN  result.raised = "" /\ result.score = 0 /\ result.explanation = <<>>
        /\ (op = "calculate_listing_score") =>
               (ret.raised = "" /\ ret.value.score = 0 /\ ret.value.explanation = <<>>)
        /\ (op = "find_matches" /\ top_n >= 0) =>
               /\ ret.raised = ""
               /\ Len(ret.value) = Min(top_n, Len(listings))
               /\ \A n \in 1..Len(ret.value) :
                      ret.value[n] = [listing |-> listings[n], score |-> 0, explanation |-> <<>>]

\* find_matches("", listings, 1) has returned the first of two listings, one that has
\* no key but its title
C26_Witness ==
    /\ op = "find_matches" /\ query = "" /\ top_n = 1 /\ Len(listings) = 2
    /\ listings[1] = ListingPool[6]
    /\ ret.raised = "" /\ Len(ret.value) = 1 /\ ret.value[1].listing = ListingPool[6]

\* what generate_response shows of a sequence of at most 3: all of it; of a longer one:
\* its first 3
Shown(seq) == [n \in 1..Min(3, Len(seq)) |-> seq[n]]

\* C27: given n >= 1 matches, generate_response emits exactly n entries, numbered 1..n
\* in the order given, and then the closing line; the entry of a listing with a amenities
\* shows the first min(3, a) of them and "N more" iff a > 3, with N = a - 3; of the e
\* reasons of the explanation it shows the first min(3, e) in order and "N other factors"
\* iff e > 3, with N = e - 3.
C27_ResponseEntries ==
    (op = "generate_response" /\ given # <<>>) =>
        /\ ret.raised = ""
        /\ Len(ret.value.entries) = Len(given)
        /\ ret.value.footer = Footer
        /\ \A i \in 1..Len(given) :
               LET entry == ret.value.entries[i]
                   l == given[i].listing
                   a == IF "amenities" \in l.keys /\ ~IsNone(l.amenities) THEN Val(l.amenities) ELSE <<>>
                   e == given[i].explanation
               IN  /\ entry.number = i
                   /\ entry.title = (IF "title" \in l.keys THEN l.title ELSE None)
                   /\ entry.amenities = Shown(a)
                   /\ entry.more = (IF Len(a) > 3 THEN Len(a) - 3 ELSE 0)
                   /\ entry.reasons = Shown(e)
                   /\ entry.other = (IF Len(e) > 3 THEN Len(e) - 3 ELSE 0)

\* the query has, as a whole word, some keyword of the category
Names(category) ==
    \E n \in 1..Len(property_types) :
        /\ property_types[n][1] = category
        /\ \E k \in 1..Len(property_types[n][2]) : WholeWord(Lower(query), property_types[n][2][k])

\* C28: the property type extracted is the first of apartment, house and room that has a
\* keyword in the query as a whole word, wherever in the query the keywords stand: a
\* query naming a house keyword and an apartment keyword gives apartment; a query with no
\* keyword of any category leaves property_type unset.
C28_PropertyTypeOrder ==
    op = "extract_preferences" =>
        /\ ret.raised = ""
        /\ ret.value.property_type =
               (IF Names("apartment") THEN Some("apartment")
                ELSE IF Names("house") THEN Some("house")
                ELSE IF Names("room") THEN Some("room")
                ELSE None)

\* the preferences of "house dorm apt", which names the three categories with the
\* apartment keyword last, have been extracted
C28_Witness ==
    /\ op = "extract_preferences" /\ query = "house dorm apt"
    /\ ret.value.property_type = Some("apartment")

\* C29: in calculate_listing_score a rule appends an explanation entry iff what it adds
\* to the score is strictly positive: the rules that take away or add nothing append
\* nothing. So a result with an empty explanation has a score of 0 or less, and a result
\* with a score above 0 has an explanation. The entries and the contributions of the
\* rules are those that make up the result returned.
C29_EntryIffPositive ==
    (op = "calculate_listing_score" /\ ret.raised = "") =>
        LET rules == Rules(listings[1], Preferences, nltk_available, tokenizer_ok, stop_words)
            total[n \in 0..Len(rules)] ==
                IF n = 0 THEN [score |-> 0, explanation |-> <<>>]
                ELSE [score |-> total[n - 1].score + rules[n].d,
                      explanation |-> total[n - 1].explanation \o rules[n].e]
        IN  /\ \A n \in 1..Len(rules) : rules[n].err = "" /\ (Len(rules[n].e) = 1 <=> rules[n].d > 0)
            /\ \A n \in 1..Len(rules) : Len(rules[n].e) <= 1
            /\ ret.value = total[Len(rules)]
            /\ ret.value.explanation = <<>> => ret.value.score <= 0
            /\ ret.value.score > 0 => ret.value.explanation # <<>>

\* a listing has been scored that a rule gave an entry and another rule a penalty, the
\* score coming out below 0 with a non-empty explanation
C29_Witness ==
    /\ op = "calculate_listing_score" /\ ret.raised = ""
    /\ query = "2-4 bedrooms"
    /\ ret.value.score < 0
    /\ ret.value.explanation = <<"Bedrooms within desired range">>

\* C30: whenever extract_preferences sets both ends of a range, min_bedrooms and
\* max_bedrooms, min_bathrooms and max_bathrooms, or min_price and max_price, the lower
\* end is less than or equal to the upper end, whatever the query.
C30_RangesInOrder ==
    (op = "extract_preferences" /\ ret.raised = "") =>
        LET p == ret.value
        IN  /\ (~IsNone(p.min_bedrooms) /\ ~IsNone(p.max_bedrooms)) =>
                   Val(p.min_bedrooms) <= Val(p.max_bedrooms)
            /\ (~IsNone(p.min_bathrooms) /\ ~IsNone(p.max_bathrooms)) =>
                   Val(p.min_bathrooms) <= Val(p.max_bathrooms)
            /\ (~IsNone(p.min_price) /\ ~IsNone(p.max_price)) =>
                   Val(p.min_price) <= Val(p.max_price)

====
